---- MODULE Spec2Model ----
(***************************************************************************)
(* A model of the css-extractor repository:                                *)
(*   - CacheManager (css_extractor/managers/cache.py): the size- and       *)
(*     time-bounded on-disk cache, one action per public method;           *)
(*   - FileLock (css_extractor/utils/concurrency.py): the lock the cache   *)
(*     methods take, as used by several threads of one process;            *)
(*   - ImportManager (css_extractor.py): the @import resolver, as called   *)
(*     by extract_css_from_html.                                           *)
(***************************************************************************)
EXTENDS Integers, Sequences, FiniteSets, TLC

VARIABLES
    \* ---- CacheManager ----
    metadata,    \* self.metadata: the dict, as the sequence of its items in insertion order
    files,       \* the payload files of cache_dir: file name (a key) -> content
    temps,       \* the temporary files of cache_dir: key -> content of f"{key}.tmp"
    index,       \* metadata.json: what the last _save_metadata wrote
    stats,       \* self.stats
    now,         \* the clock read by time.time()
    uuids,       \* the uuid4 values drawn so far
    watch        \* one cache_css call, chosen freely, that has not been followed by
                 \* another cache_css, a remove or a clear of its key: the key it was
                 \* given (NoKey when omitted), the key it returned, its content and
                 \* the time it read (NoWatch when no call is followed)

cacheVars == <<metadata, files, temps, index, stats, now, uuids, watch>>

VARIABLES
    lockCount,   \* self._cache_lock._lock_count
    lockFile,    \* whether the lock file of self._cache_lock exists
    thr          \* each thread's call on the shared CacheManager: the method it
                 \* runs and its position in it

lockVars == <<lockCount, lockFile, thr>>

VARIABLES
    im           \* each task's top-level resolution of imports: its ImportManager
                 \* (_import_depth, the holder of _lock, _processed_imports), the
                 \* document it resolves and its position in process_imports

importVars == <<im>>

VARIABLES
    sheet,       \* the cssRules of the style sheet CSSOptimizer.optimize works on
    opt,         \* the optimize call under way: its position, the html_content it
                 \* was given, and for each pass the rule list it received
    retry,       \* the retry_with_backoff call under way
    batch        \* the extract_css_from_directory call under way

restVars == <<sheet, opt, retry, batch>>

VARIABLES
    net,         \* a NetworkManager: its limit, its counter, its request queue and
                 \* the HTTP requests issued so far
    mem,         \* a MemoryManager and the memory the process holds
    optCache,    \* CSSOptimizer._cache and what the last optimize call returned
    flock,       \* two FileLock objects for one path and their lock file
    dir          \* a CacheManager and its cache directory, file by file name

mgrVars == <<net, mem, optCache, flock, dir>>

vars == <<cacheVars, lockVars, importVars, restVars, mgrVars>>

-----------------------------------------------------------------------------
(* Bounds and parameters of the modelled CacheManager instance.             *)

\* size_limit given to the constructor (bytes)
SizeLimit == 2
\* expiration given to the constructor (clock ticks)
Expiration == 1
\* the clock stops advancing here
MaxTime == 2
\* cap on the sum of the statistics counters since the last reset
MaxCount == 2

\* CSS texts the callers pass; len(css_content.encode()) is the length of the text
Contents == {"a", "bb", "ccc"}
\* keys the callers supply
ExplicitKeys == {"k1", "k2"}
\* the values uuid.uuid4() can return; a value is not drawn twice
Uuids == {"u1"}
\* the one thread of the single-threaded runs
MainThread == "T1"

None == "<None>"

\* the key field of a record that names no key
NoKey == <<"", "", "">>

ContentSize(css_content) == Len(css_content)

\* hashlib.sha256(...).hexdigest(): a function of the content alone, taken collision-free
Sha256(css_content) == "sha256:" \o css_content

\* f"{key}_{thread_id}_{uuid.uuid4().hex}"
GeneratedKey(css_content, thread_id, uuid) == <<Sha256(css_content), thread_id, uuid>>

SuppliedKey(name) == <<name, "", "">>

-----------------------------------------------------------------------------
(* The metadata dict (a ThreadSafeDict), kept as its item sequence.         *)

HasKey(md, key) == \E i \in DOMAIN md : md[i].key = key

Info(md, key) == md[CHOOSE i \in DOMAIN md : md[i].key = key]

\* dict.__setitem__: an existing key keeps its position, a new key goes last
\* a faulty variant of SetItem: the entry is added without replacing the one held
AppendItem(md, entry) == Append(md, entry)

SetItem(md, entry) ==
    IF HasKey(md, entry.key)
    THEN [i \in DOMAIN md |-> IF md[i].key = entry.key THEN entry ELSE md[i]]
    ELSE Append(md, entry)

\* dict.__delitem__
DelItem(md, key) == SelectSeq(md, LAMBDA e : e.key # key)

RECURSIVE SumSizes(_)
SumSizes(md) == IF md = <<>> THEN 0 ELSE Head(md).size + SumSizes(Tail(md))

\* sum(info['size'] for info in self.metadata.values())
TotalSize(md) == SumSizes(md)

CheckSizeLimit(md) == TotalSize(md) <= SizeLimit

\* insertion of e into a sequence sorted by timestamp, after the entries that are not newer
RECURSIVE InsertByTimestamp(_, _)
InsertByTimestamp(sorted, e) ==
    IF sorted = <<>> THEN <<e>>
    ELSE IF Head(sorted).timestamp <= e.timestamp
         THEN <<Head(sorted)>> \o InsertByTimestamp(Tail(sorted), e)
         ELSE <<e>> \o sorted

RECURSIVE SortedEntriesFrom(_, _)
SortedEntriesFrom(md, acc) ==
    IF md = <<>> THEN acc
    ELSE SortedEntriesFrom(Tail(md), InsertByTimestamp(acc, Head(md)))

\* a faulty variant of SortedEntries: the items in dict order, the sort left out
UnsortedEntries(md) == md

\* sorted(self.metadata.items(), key=lambda x: x[1]['timestamp']): stable, oldest first
SortedEntries(md) == SortedEntriesFrom(md, <<>>)

\* cache_file.exists() / cache_file.unlink()
FileExists(fs, key) == key \in DOMAIN fs

Unlink(fs, key) == [k \in (DOMAIN fs) \ {key} |-> fs[k]]

\* a faulty variant of WriteFile: a rename that leaves an existing payload in place
WriteFileIfAbsent(fs, key, css_content) ==
    IF key \in DOMAIN fs THEN fs
    ELSE [k \in (DOMAIN fs) \cup {key} |-> IF k = key THEN css_content ELSE fs[k]]

\* open(temp_file, 'w').write(css_content); temp_file.rename(cache_file)
WriteFile(fs, key, css_content) ==
    [k \in (DOMAIN fs) \cup {key} |-> IF k = key THEN css_content ELSE fs[k]]

\* a faulty variant of EvictLoop: the loop leaves after the first removal
EvictOnce(sorted, st) ==
    IF sorted = <<>> \/ TotalSize(st.md) <= SizeLimit THEN st
    ELSE [md      |-> SelectSeq(st.md, LAMBDA e : e.key # Head(sorted).key),
          fs      |-> [k \in (DOMAIN st.fs) \ {Head(sorted).key} |-> st.fs[k]],
          evicted |-> Append(st.evicted, Head(sorted))]

\* the loop of _make_space over the sorted snapshot: stop as soon as the size is
\* within the limit, else remove the payload and the metadata of the next entry
RECURSIVE EvictLoop(_, _)
EvictLoop(sorted, st) ==
    IF sorted = <<>> \/ CheckSizeLimit(st.md) THEN st
    ELSE EvictLoop(Tail(sorted),
                   [md      |-> DelItem(st.md, Head(sorted).key),
                    fs      |-> IF FileExists(st.fs, Head(sorted).key)
                                THEN Unlink(st.fs, Head(sorted).key) ELSE st.fs,
                    evicted |-> Append(st.evicted, Head(sorted))])

\* _make_space: nothing to do when within the limit
MakeSpace(md, fs) ==
    IF CheckSizeLimit(md)
    THEN [md |-> md, fs |-> fs, evicted |-> <<>>]
    ELSE EvictLoop(SortedEntries(md), [md |-> md, fs |-> fs, evicted |-> <<>>])

\* time.time() - info['timestamp'] > self.expiration
Expired(info, t) == t - info.timestamp > Expiration

\* what get_cached_css(key) returns in a state
GetResult(md, fs, t, key) ==
    IF ~HasKey(md, key) THEN None
    ELSE IF Expired(Info(md, key), t) THEN None
    ELSE IF ~FileExists(fs, key) THEN None
    ELSE fs[key]

\* get_cache_stats()['total_entries']: len(self.metadata)
TotalEntries(md) == Len(md)

\* the counters of self.stats as reset_stats leaves them (start_time, which only
\* get_cache_stats reads to report rates, is left out)
ZeroStats == [hits |-> 0, misses |-> 0, evictions |-> 0, expirations |-> 0, errors |-> 0]

\* the sum of the counters a call may increase
Counted(st) == st.hits + st.misses + st.evictions + st.expirations + st.errors


NoWatch == [supplied |-> NoKey, key |-> NoKey, content |-> None, time |-> 0]

-----------------------------------------------------------------------------
(* metadata.json: the text of the file is modelled by whether the file      *)
(* exists, whether it can be opened, whether it parses as JSON, and the     *)
(* members of the object it holds, in order.                                *)

\* no metadata.json in the cache directory
NoIndexFile == [exists |-> FALSE, readable |-> FALSE, wellformed |-> FALSE, members |-> <<>>]

\* a faulty variant of JsonDump: the last member is not written
JsonDumpShort(md) ==
    [exists |-> TRUE, readable |-> TRUE, wellformed |-> TRUE,
     members |-> [i \in 1 .. (Len(md) - 1) |->
                     [name  |-> md[i].key,
                      value |-> [size |-> md[i].size, timestamp |-> md[i].timestamp,
                                 original_key |-> md[i].original_key]]]]

\* json.dump(dict(self.metadata.items()), f): one member per key, in dict order
JsonDump(md) ==
    [exists |-> TRUE, readable |-> TRUE, wellformed |-> TRUE,
     members |-> [i \in DOMAIN md |->
                     [name  |-> md[i].key,
                      value |-> [size |-> md[i].size, timestamp |-> md[i].timestamp,
                                 original_key |-> md[i].original_key]]]]

\* _save_metadata: the file is rewritten; a failure to open it is logged and swallowed
SaveMetadata(doc, md) ==
    IF doc.exists /\ ~doc.readable THEN doc ELSE JsonDump(md)

\* the file with the text "invalid json"
InvalidJson == [exists |-> TRUE, readable |-> TRUE, wellformed |-> FALSE, members |-> <<>>]

\* the file cut short, as a write that did not finish leaves it
Truncated(doc) ==
    [exists |-> TRUE, readable |-> TRUE, wellformed |-> FALSE,
     members |-> SubSeq(doc.members, 1, Len(doc.members) - 1)]

\* the file with its read and write permission taken away
Unreadable(doc) == [doc EXCEPT !.readable = FALSE]

\* open(self.metadata_file, 'r') raises
OpenRaises(doc) == ~doc.readable

\* json.load(f) raises
JsonLoadRaises(doc) == ~doc.wellformed

RECURSIVE Update(_, _)
\* self.metadata.update(data): the members are assigned in order
Update(md, members) ==
    IF members = <<>> THEN md
    ELSE Update(SetItem(md, [key |-> Head(members).name,
                             size |-> Head(members).value.size,
                             timestamp |-> Head(members).value.timestamp,
                             original_key |-> Head(members).value.original_key]),
                Tail(members))

\* a faulty variant of LoadMetadata: no handler around the load
LoadMetadataUnhandled(md, doc) ==
    IF ~doc.exists THEN [md |-> md, raised |-> FALSE]
    ELSE IF OpenRaises(doc) \/ JsonLoadRaises(doc) THEN [md |-> md, raised |-> TRUE]
    ELSE [md |-> Update(md, doc.members), raised |-> FALSE]

\* _load_metadata on the in-memory map md: the map it leaves, and whether it raises
LoadMetadata(md, doc) ==
    IF ~doc.exists THEN [md |-> md, raised |-> FALSE]
    ELSE IF OpenRaises(doc) \/ JsonLoadRaises(doc) THEN [md |-> <<>>, raised |-> FALSE]
    ELSE [md |-> Update(md, doc.members), raised |-> FALSE]

-----------------------------------------------------------------------------
(* CacheManager: state after construction on an empty directory.            *)

CacheInit ==
    /\ metadata = <<>>
    /\ files = <<>>
    /\ temps = <<>>
    /\ index = NoIndexFile
    /\ stats = ZeroStats
    /\ now = 0
    /\ uuids = {}
    /\ watch = NoWatch

\* the clock advances between calls
Tick ==
    /\ now < MaxTime
    /\ now' = now + 1
    /\ UNCHANGED <<temps, metadata, files, index, stats, uuids, watch, lockVars, importVars, restVars, mgrVars>>

\* the state cache_css leaves behind once the payload is written: the metadata
\* entry is set and, when the size is over the limit, _make_space has run
Stored(md, fs, css_content, key, t) ==
    LET entry == [key |-> key, size |-> ContentSize(css_content),
                  timestamp |-> t, original_key |-> key]
        fs1   == WriteFile(fs, key, css_content)
        md1   == SetItem(md, entry)
    IN  IF ~CheckSizeLimit(md1) THEN MakeSpace(md1, fs1)
        ELSE [md |-> md1, fs |-> fs1, evicted |-> <<>>]

\* cache_css with the effective key already determined; supplied is the key argument
CacheCssWithKey(css_content, supplied, key) ==
    \E spaced \in {Stored(metadata, files, css_content, key, now)} :
        /\ files' = spaced.fs
        /\ metadata' = spaced.md
        /\ index' = SaveMetadata(index, spaced.md)
        /\ stats' = [stats EXCEPT !.evictions = @ + Len(spaced.evicted)]
        /\ Counted(stats') <= MaxCount
        /\ \/ watch' = [supplied |-> supplied, key |-> key,
                        content |-> css_content, time |-> now]
           \/ watch' = IF watch # NoWatch /\ watch.key = key THEN NoWatch ELSE watch

\* cache_css(css_content, key)
CacheCss(css_content, name) ==
    /\ CacheCssWithKey(css_content, SuppliedKey(name), SuppliedKey(name))
    /\ UNCHANGED <<temps, now, uuids, lockVars, importVars, restVars, mgrVars>>

\* cache_css(css_content): the key is generated
CacheCssNoKey(css_content) ==
    /\ \E u \in Uuids \ uuids :
          /\ uuids' = uuids \cup {u}
          /\ CacheCssWithKey(css_content, NoKey,
                             GeneratedKey(css_content, MainThread, u))
    /\ UNCHANGED <<temps, now, lockVars, importVars, restVars, mgrVars>>

\* the stages of the payload write at which cache_css can fail: open(temp_file, 'w'),
\* f.write(css_content) and temp_file.rename(cache_file)
WriteStages == {"open", "write", "rename"}

\* what f.write had put into the temporary file when it failed
Partial(css_content) == SubSeq(css_content, 1, Len(css_content) - 1)

\* the temporary files at the moment the write of css_content under key fails
TempAtFailure(tmp, key, css_content, stage) ==
    IF stage = "open" THEN tmp
    ELSE [k \in (DOMAIN tmp) \cup {key} |->
             IF k # key THEN tmp[k]
             ELSE IF stage = "write" THEN Partial(css_content) ELSE css_content]

\* a faulty variant of CleanUpTemp: the temporary file is left behind
KeepTemp(tmp, key) == tmp

\* the handler of lines 226-230: if temp_file.exists(): temp_file.unlink()
CleanUpTemp(tmp, key) ==
    IF key \in DOMAIN tmp THEN [k \in (DOMAIN tmp) \ {key} |-> tmp[k]] ELSE tmp

\* cache_css whose payload write fails at stage: the handler removes the temporary
\* file, errors is counted and CacheError is raised; the metadata is not reached
CacheCssFailsWithKey(css_content, key, stage) ==
    /\ temps' = CleanUpTemp(TempAtFailure(temps, key, css_content, stage), key)
    /\ stats' = [stats EXCEPT !.errors = @ + 1]
    /\ Counted(stats') <= MaxCount
    /\ UNCHANGED <<metadata, files, index, now, watch, lockVars, importVars, restVars, mgrVars>>

\* cache_css(css_content, key) raising CacheError
CacheCssFails(css_content, name, stage) ==
    /\ CacheCssFailsWithKey(css_content, SuppliedKey(name), stage)
    /\ UNCHANGED uuids

\* cache_css(css_content) raising CacheError
CacheCssNoKeyFails(css_content, stage) ==
    \E u \in Uuids \ uuids :
        /\ uuids' = uuids \cup {u}
        /\ CacheCssFailsWithKey(css_content, GeneratedKey(css_content, MainThread, u),
                                stage)

\* a faulty variant of RemoveEntry: the metadata entry is left in place
RemovePayloadOnly(md, fs, key) ==
    [md |-> md, fs |-> [k \in (DOMAIN fs) \ {key} |-> fs[k]]]

\* a faulty variant of RemoveEntry: the payload file is left in place
RemoveMetadataOnly(md, fs, key) ==
    [md |-> SelectSeq(md, LAMBDA e : e.key # key), fs |-> fs]

\* the body of remove_cached_css on (md, fs)
RemoveEntry(md, fs, key) ==
    [md |-> IF HasKey(md, key) THEN DelItem(md, key) ELSE md,
     fs |-> IF FileExists(fs, key) THEN Unlink(fs, key) ELSE fs]

\* get_cached_css(key)
GetCachedCss(key) ==
    /\ IF ~HasKey(metadata, key)
       THEN /\ stats' = [stats EXCEPT !.misses = @ + 1]
            /\ UNCHANGED <<metadata, files, index>>
       ELSE IF Expired(Info(metadata, key), now)
       THEN LET removed == RemoveEntry(metadata, files, key)
            IN  /\ metadata' = removed.md
                /\ files' = removed.fs
                /\ index' = SaveMetadata(index, removed.md)
                /\ stats' = [stats EXCEPT !.expirations = @ + 1, !.misses = @ + 1]
       ELSE IF ~FileExists(files, key)
       THEN /\ stats' = [stats EXCEPT !.misses = @ + 1]
            /\ UNCHANGED <<metadata, files, index>>
       ELSE /\ stats' = [stats EXCEPT !.hits = @ + 1]
            /\ UNCHANGED <<metadata, files, index>>
    /\ Counted(stats') <= MaxCount
    /\ UNCHANGED <<temps, now, uuids, watch, lockVars, importVars, restVars, mgrVars>>

\* remove_cached_css(key)
RemoveCachedCss(key) ==
    LET removed == RemoveEntry(metadata, files, key)
    IN  /\ metadata' = removed.md
        /\ files' = removed.fs
        /\ index' = SaveMetadata(index, removed.md)
        /\ watch' = IF watch # NoWatch /\ watch.key = key THEN NoWatch ELSE watch
        /\ UNCHANGED <<temps, stats, now, uuids, lockVars, importVars, restVars, mgrVars>>

\* the keys _clean_expired collects
ExpiredKeys(md, t) == {md[i].key : i \in {j \in DOMAIN md : Expired(md[j], t)}}

\* cleanup(): _clean_expired, _save_metadata, reset_stats
Cleanup ==
    LET expired == ExpiredKeys(metadata, now)
        md1     == SelectSeq(metadata, LAMBDA e : e.key \notin expired)
    IN  /\ metadata' = md1
        /\ files' = [k \in (DOMAIN files) \ expired |-> files[k]]
        /\ index' = SaveMetadata(index, md1)
        /\ stats' = ZeroStats
        /\ UNCHANGED <<temps, now, uuids, watch, lockVars, importVars, restVars, mgrVars>>

\* clear_cache(): every file but metadata.json is removed
ClearCache ==
    /\ metadata' = <<>>
    /\ files' = <<>>
    /\ index' = SaveMetadata(index, <<>>)
    /\ stats' = ZeroStats
    /\ temps' = <<>>
    /\ watch' = NoWatch
    /\ UNCHANGED <<now, uuids, lockVars, importVars, restVars, mgrVars>>

\* the keys a caller can know: the supplied ones and the generated ones returned so far
KnownKeys ==
    {SuppliedKey(n) : n \in ExplicitKeys} \cup {metadata[i].key : i \in DOMAIN metadata}
        \cup (IF watch # NoWatch THEN {watch.key} ELSE {})

CacheNext ==
    \/ Tick
    \/ \E c \in Contents, n \in ExplicitKeys : CacheCss(c, n)
    \/ \E c \in Contents : CacheCssNoKey(c)
    \/ \E k \in KnownKeys : GetCachedCss(k)
    \/ \E k \in KnownKeys : RemoveCachedCss(k)
    \/ Cleanup
    \/ ClearCache

\* the calls of CacheNext, and cache_css calls whose payload write fails
\* CacheManager(cache_dir) on the directory of the running cache: the counters start
\* at zero and the metadata is what _load_metadata reads from metadata.json
Restart ==
    /\ metadata' = LoadMetadata(<<>>, index).md
    /\ stats' = ZeroStats
    /\ UNCHANGED <<files, temps, index, now, uuids, watch, lockVars, importVars, restVars, mgrVars>>

\* the operations of CacheNext and the construction of a new CacheManager
RestartNext ==
    \/ CacheNext
    \/ Restart

\* metadata.json is damaged from outside: overwritten with text that is not JSON,
\* cut short, or made unreadable
CorruptIndex ==
    /\ index.exists /\ index.readable /\ index.wellformed
    /\ index' \in {InvalidJson, Truncated(index), Unreadable(index)}
    /\ UNCHANGED <<metadata, files, temps, stats, now, uuids, watch, lockVars, importVars, restVars, mgrVars>>

\* _load_metadata() called on the running CacheManager
ReloadMetadata ==
    /\ metadata' = LoadMetadata(metadata, index).md
    /\ UNCHANGED <<files, temps, index, stats, now, uuids, watch, lockVars, importVars, restVars, mgrVars>>

\* a cache whose index can be damaged and loaded again
CorruptNext ==
    \/ \E c \in Contents, n \in ExplicitKeys : CacheCss(c, n)
    \/ \E k \in KnownKeys : GetCachedCss(k)
    \/ CorruptIndex
    \/ ReloadMetadata
    \/ Restart

\* the values uuid.uuid4() returns once those of Uuids are used up
FurtherUuids == {"u2"}

\* a further cache_css(css_content) without a key
CacheCssNoKeyAgain(css_content) ==
    /\ \E u \in FurtherUuids \ uuids :
          /\ uuids' = uuids \cup {u}
          /\ CacheCssWithKey(css_content, NoKey,
                             GeneratedKey(css_content, MainThread, u))
    /\ UNCHANGED <<temps, now, lockVars, importVars, restVars, mgrVars>>

\* the operations of CacheNext, with more than one keyless cache_css call
KeylessNext ==
    \/ CacheNext
    \/ \E c \in Contents : CacheCssNoKeyAgain(c)

FaultNext ==
    \/ CacheNext
    \/ \E c \in Contents, n \in ExplicitKeys, st \in WriteStages : CacheCssFails(c, n, st)
    \/ \E c \in Contents, st \in WriteStages : CacheCssNoKeyFails(c, st)

\* the loop of _make_space when cache_file.unlink() raises for the payload of
\* the key bad: the exception leaves the loop, which stands in one try block
\* with it, and the entries after it in the snapshot are not looked at
RECURSIVE EvictLoopUnlinkFails(_, _, _)
EvictLoopUnlinkFails(sorted, st, bad) ==
    IF sorted = <<>> \/ CheckSizeLimit(st.md) THEN st
    ELSE IF Head(sorted).key = bad /\ FileExists(st.fs, bad)
         THEN [st EXCEPT !.failed = TRUE]
         ELSE EvictLoopUnlinkFails(Tail(sorted),
                   [md      |-> DelItem(st.md, Head(sorted).key),
                    fs      |-> IF FileExists(st.fs, Head(sorted).key)
                                THEN Unlink(st.fs, Head(sorted).key) ELSE st.fs,
                    evicted |-> Append(st.evicted, Head(sorted)),
                    failed  |-> FALSE],
                   bad)

\* cache_css(css_content, key) when the eviction it starts fails at the payload
\* of bad: _make_space counts an error and returns without saving the index,
\* which stays as cache_css saved it, and cache_css returns the key
CacheCssUnlinkFails(css_content, name, bad) ==
    /\ LET key == SuppliedKey(name)
           entry == [key |-> key, size |-> ContentSize(css_content),
                     timestamp |-> now, original_key |-> key]
           fs1 == WriteFile(files, key, css_content)
           md1 == SetItem(metadata, entry)
           spaced == EvictLoopUnlinkFails(SortedEntries(md1),
                        [md |-> md1, fs |-> fs1, evicted |-> <<>>, failed |-> FALSE], bad)
       IN  /\ ~CheckSizeLimit(md1)
           /\ spaced.failed
           /\ files' = spaced.fs
           /\ metadata' = spaced.md
           /\ index' = SaveMetadata(index, md1)
           /\ stats' = [stats EXCEPT !.evictions = @ + Len(spaced.evicted),
                                     !.errors = @ + 1]
           /\ Counted(stats') <= MaxCount
           /\ \/ watch' = [supplied |-> key, key |-> key,
                           content |-> css_content, time |-> now]
              \/ watch' = IF watch # NoWatch /\ watch.key = key THEN NoWatch ELSE watch
    /\ UNCHANGED <<temps, now, uuids, lockVars, importVars, restVars, mgrVars>>

EvictFaultNext ==
    \/ Tick
    \/ \E css_content \in Contents, name \in ExplicitKeys : CacheCss(css_content, name)
    \/ \E css_content \in Contents, name \in ExplicitKeys, bad \in KnownKeys :
          CacheCssUnlinkFails(css_content, name, bad)

-----------------------------------------------------------------------------
(* FileLock, as the threads that call the methods of one CacheManager use    *)
(* its _cache_lock.  acquire and release run under the lock object's own     *)
(* RLock, so each is one step.                                               *)

Threads == {"T1", "T2", "T3"}

\* the methods whose bodies run under "with self._cache_lock"
Guarded == {"cache_css", "get_cached_css", "remove_cached_css",
            "_clean_expired", "clear_cache"}

\* the guarded method a guarded body calls: cache_css calls _make_space,
\* get_cached_css calls remove_cached_css on an expired entry
Nested(op) ==
    CASE op = "cache_css"      -> {"_make_space"}
      [] op = "get_cached_css" -> {"remove_cached_css"}
      [] OTHER                 -> {}

Idle == [op |-> "", pc |-> "idle"]

LockInit ==
    /\ lockCount = 0
    /\ lockFile = FALSE
    /\ thr = [t \in Threads |-> Idle]

\* FileLock.acquire() with no timeout, up to its return
Acquire ==
    IF lockCount > 0
    THEN \* "Already locked by this thread": whoever the caller is
         /\ lockCount' = lockCount + 1
         /\ UNCHANGED lockFile
    ELSE IF ~lockFile
    THEN \* open(self.lock_path, 'x') succeeds
         /\ lockFile' = TRUE
         /\ lockCount' = 1
    ELSE \* the file exists and names this lock object's pid and thread id
         /\ lockCount' = lockCount + 1
         /\ UNCHANGED lockFile

\* FileLock.release()
Release ==
    IF lockCount > 0
    THEN /\ lockCount' = lockCount - 1
         /\ lockFile' = IF lockCount = 1 THEN FALSE ELSE lockFile
    ELSE UNCHANGED <<lockCount, lockFile>>

\* thread t calls a guarded method and arrives at its "with self._cache_lock"
CallGuarded(t, op) ==
    /\ thr[t].pc = "idle"
    /\ thr' = [thr EXCEPT ![t] = [op |-> op, pc |-> "request"]]
    /\ UNCHANGED <<lockCount, lockFile, cacheVars, importVars, restVars, mgrVars>>

\* __enter__ of the method's with statement returns
EnterBody(t) ==
    /\ thr[t].pc = "request"
    /\ Acquire
    /\ thr' = [thr EXCEPT ![t].pc = "body"]
    /\ UNCHANGED <<cacheVars, importVars, restVars, mgrVars>>

\* the body calls the guarded method nested in it
CallNested(t) ==
    /\ thr[t].pc = "body"
    /\ Nested(thr[t].op) # {}
    /\ thr' = [thr EXCEPT ![t].pc = "nested_request"]
    /\ UNCHANGED <<lockCount, lockFile, cacheVars, importVars, restVars, mgrVars>>

\* __enter__ of the nested method's with statement returns
EnterNested(t) ==
    /\ thr[t].pc = "nested_request"
    /\ Acquire
    /\ thr' = [thr EXCEPT ![t].pc = "nested_body"]
    /\ UNCHANGED <<cacheVars, importVars, restVars, mgrVars>>

\* the nested method leaves its with statement and returns into the body
LeaveNested(t) ==
    /\ thr[t].pc = "nested_body"
    /\ Release
    /\ thr' = [thr EXCEPT ![t].pc = "rest"]
    /\ UNCHANGED <<cacheVars, importVars, restVars, mgrVars>>

\* the method leaves its with statement and returns
LeaveBody(t) ==
    /\ thr[t].pc \in {"body", "rest"}
    /\ Release
    /\ thr' = [thr EXCEPT ![t] = Idle]
    /\ UNCHANGED <<cacheVars, importVars, restVars, mgrVars>>

\* thread t is inside a section guarded by the cache lock
InSection(t) == thr[t].pc \in {"body", "nested_request", "nested_body", "rest"}

LockNext ==
    \E t \in Threads :
        \/ \E op \in Guarded : CallGuarded(t, op)
        \/ EnterBody(t)
        \/ CallNested(t)
        \/ EnterNested(t)
        \/ LeaveNested(t)
        \/ LeaveBody(t)

-----------------------------------------------------------------------------
(* CacheManager methods called by several threads.  A call is a sequence of  *)
(* steps, one per statement that reads or writes shared state: the lock, the *)
(* files of the cache directory, self.metadata and self.stats.  thr[t] holds *)
(* the locals of the call thread t has under way.                            *)

\* the threads that call cache_css and get_cached_css
Workers == {"T1", "T2"}

\* the locals of a call at its first statement
Frame(op, key, css_content, t0) ==
    [op |-> op, pc |-> "request", key |-> key, content |-> css_content,
     time |-> t0, fd |-> "", tally |-> <<>>, seen |-> 0, result |-> None]

\* writing text at offset 0 of a file that holds old
WriteAt0(old, text) ==
    IF Len(text) >= Len(old) THEN text
    ELSE text \o SubSeq(old, Len(text) + 1, Len(old))

\* the call has a file open for writing
HasOpen(frame) == frame.pc \in {"write", "flush"}

\* the contents that fit into the cache
SmallContents == {c \in Contents : ContentSize(c) <= SizeLimit}

\* open(temp_file, 'w'): the file is created, or emptied when it exists
OpenForWrite(fs, tmp, key) ==
    [fs  |-> fs,
     tmp |-> [k \in (DOMAIN tmp) \cup {key} |-> IF k = key THEN "" ELSE tmp[k]]]

\* where the open files of the other threads are once the names in keys are
\* unlinked or replaced: the file that was the payload has no name any more
AfterUnlink(th, keys) ==
    [u \in Threads |->
        IF HasOpen(th[u]) /\ th[u].key \in keys /\ th[u].fd = "final"
        THEN [th[u] EXCEPT !.fd = "gone"] ELSE th[u]]

\* where the open files of the other threads are once the temporary file of key
\* is renamed to the payload of key
AfterRename(th, key) ==
    [u \in Threads |->
        IF HasOpen(th[u]) /\ th[u].key = key
        THEN [th[u] EXCEPT !.fd = IF @ = "temp" THEN "final" ELSE "gone"]
        ELSE th[u]]

\* thread t calls cache_css(css_content, key): the size and the time are taken
\* before the lock is requested
CallCacheCss(t, css_content, name) ==
    /\ thr[t].pc = "idle"
    /\ thr' = [thr EXCEPT ![t] = Frame("cache_css", SuppliedKey(name), css_content, now)]
    /\ UNCHANGED <<lockCount, lockFile, cacheVars, importVars, restVars, mgrVars>>

\* thread t calls get_cached_css(key)
CallGetCachedCss(t, key) ==
    /\ thr[t].pc = "idle"
    /\ thr' = [thr EXCEPT ![t] = Frame("get_cached_css", key, None, now)]
    /\ UNCHANGED <<lockCount, lockFile, cacheVars, importVars, restVars, mgrVars>>

\* "with self._cache_lock" of the method is entered
EnterCall(t) ==
    /\ thr[t].pc = "request"
    /\ thr[t].op \in {"cache_css", "get_cached_css"}
    /\ Acquire
    /\ thr' = [thr EXCEPT ![t].pc = IF thr[t].op = "cache_css" THEN "open" ELSE "lookup"]
    /\ UNCHANGED <<cacheVars, importVars, restVars, mgrVars>>

\* the file a call has open for writing holds text once the call has written it
WrittenTo(fs, tmp, frame, text) ==
    IF frame.fd = "temp" /\ frame.key \in DOMAIN tmp
    THEN [fs |-> fs, tmp |-> [tmp EXCEPT ![frame.key] = WriteAt0(@, text)]]
    ELSE IF frame.fd = "final" /\ frame.key \in DOMAIN fs
    THEN [fs |-> [fs EXCEPT ![frame.key] = WriteAt0(@, text)], tmp |-> tmp]
    ELSE [fs |-> fs, tmp |-> tmp]

\* with open(temp_file, 'w') as f
OpenTemp(t) ==
    /\ thr[t].pc = "open"
    /\ \E opened \in {OpenForWrite(files, temps, thr[t].key)} :
          files' = opened.fs /\ temps' = opened.tmp
    /\ thr' = [thr EXCEPT ![t].pc = "write", ![t].fd = "temp"]
    /\ UNCHANGED <<metadata, index, stats, now, uuids, watch,
                   lockCount, lockFile, importVars, restVars, mgrVars>>

\* f.write(css_content) when the buffer is flushed before the close: a first part
\* of the text reaches the file
WriteChunk(t) ==
    /\ thr[t].pc = "write"
    /\ \E written \in {WrittenTo(files, temps, thr[t], Partial(thr[t].content))} :
          files' = written.fs /\ temps' = written.tmp
    /\ thr' = [thr EXCEPT ![t].pc = "flush"]
    /\ UNCHANGED <<metadata, index, stats, now, uuids, watch,
                   lockCount, lockFile, importVars, restVars, mgrVars>>

\* f.write(css_content) and the close at the end of the with block: the text
\* reaches the file the handle is open on, whatever its name is by now
CloseTemp(t) ==
    /\ HasOpen(thr[t])
    /\ \E written \in {WrittenTo(files, temps, thr[t], thr[t].content)} :
          files' = written.fs /\ temps' = written.tmp
    /\ thr' = [thr EXCEPT ![t].pc = "rename", ![t].fd = ""]
    /\ UNCHANGED <<metadata, index, stats, now, uuids, watch,
                   lockCount, lockFile, importVars, restVars, mgrVars>>

\* temp_file.rename(cache_file): FileNotFoundError when the temporary file is gone
RenameTemp(t) ==
    /\ thr[t].pc = "rename"
    /\ IF thr[t].key \in DOMAIN temps
       THEN /\ files' = WriteFile(files, thr[t].key, temps[thr[t].key])
            /\ temps' = CleanUpTemp(temps, thr[t].key)
            /\ thr' = [AfterRename(thr, thr[t].key) EXCEPT ![t].pc = "store"]
       ELSE /\ thr' = [thr EXCEPT ![t].pc = "failed"]
            /\ UNCHANGED <<files, temps>>
    /\ UNCHANGED <<metadata, index, stats, now, uuids, watch,
                   lockCount, lockFile, importVars, restVars, mgrVars>>

\* self.metadata[key] = {...}, _save_metadata(), and _make_space() when the size
\* check fails
StoreEntry(t) ==
    /\ thr[t].pc = "store"
    /\ LET md1 == SetItem(metadata, [key |-> thr[t].key,
                                     size |-> ContentSize(thr[t].content),
                                     timestamp |-> thr[t].time,
                                     original_key |-> thr[t].key])
       IN  \E spaced \in {MakeSpace(md1, files)} :
              /\ metadata' = spaced.md
              /\ files' = spaced.fs
              /\ index' = SaveMetadata(index, spaced.md)
              /\ stats' = [stats EXCEPT !.evictions = @ + Len(spaced.evicted)]
              /\ thr' = [AfterUnlink(thr, {spaced.evicted[i].key : i \in DOMAIN spaced.evicted})
                             EXCEPT ![t].pc = "leave", ![t].result = thr[t].key]
    /\ Counted(stats') <= MaxCount
    /\ UNCHANGED <<temps, now, uuids, watch, lockCount, lockFile, importVars, restVars, mgrVars>>

\* the exception leaves the with block: the handlers find no temporary file to
\* remove, count the error and raise CacheError
FailCall(t) ==
    /\ thr[t].pc = "failed"
    /\ Release
    /\ stats' = [stats EXCEPT !.errors = @ + 1]
    /\ Counted(stats') <= MaxCount
    /\ thr' = [thr EXCEPT ![t].pc = "raised"]
    /\ UNCHANGED <<metadata, files, temps, index, now, uuids, watch, importVars, restVars, mgrVars>>

\* get_cached_css up to the test of the entry's age: a key that is not in
\* self.metadata is a miss, an entry that is too old is removed
Lookup(t) ==
    /\ thr[t].pc = "lookup"
    /\ IF ~HasKey(metadata, thr[t].key)
       THEN /\ thr' = [thr EXCEPT ![t].pc = "count", ![t].tally = <<"misses">>]
            /\ UNCHANGED <<metadata, files, index>>
       ELSE IF Expired(Info(metadata, thr[t].key), now)
       THEN LET removed == RemoveEntry(metadata, files, thr[t].key)
            IN  /\ metadata' = removed.md
                /\ files' = removed.fs
                /\ index' = SaveMetadata(index, removed.md)
                /\ thr' = [AfterUnlink(thr, {thr[t].key}) EXCEPT
                               ![t].pc = "count",
                               ![t].tally = <<"expirations", "misses">>]
       ELSE /\ thr' = [thr EXCEPT ![t].pc = "exists"]
            /\ UNCHANGED <<metadata, files, index>>
    /\ UNCHANGED <<temps, stats, now, uuids, watch, lockCount, lockFile, importVars, restVars, mgrVars>>

\* cache_file.exists()
TestExists(t) ==
    /\ thr[t].pc = "exists"
    /\ thr' = IF FileExists(files, thr[t].key)
              THEN [thr EXCEPT ![t].pc = "read"]
              ELSE [thr EXCEPT ![t].pc = "count", ![t].tally = <<"misses">>]
    /\ UNCHANGED <<lockCount, lockFile, cacheVars, importVars, restVars, mgrVars>>

\* open(cache_file, 'r') and f.read(); the open raises when the file is gone,
\* which the handler of get_cached_css turns into None
ReadPayload(t) ==
    /\ thr[t].pc = "read"
    /\ thr' = IF FileExists(files, thr[t].key)
              THEN [thr EXCEPT ![t].pc = "count", ![t].tally = <<"hits">>,
                               ![t].result = files[thr[t].key]]
              ELSE [thr EXCEPT ![t].pc = "count", ![t].tally = <<"errors">>]
    /\ UNCHANGED <<lockCount, lockFile, cacheVars, importVars, restVars, mgrVars>>

\* self.stats[name] += 1, first half: ThreadSafeDict.__getitem__
ReadCounter(t) ==
    /\ thr[t].pc = "count"
    /\ thr' = [thr EXCEPT ![t].pc = "add", ![t].seen = stats[Head(thr[t].tally)]]
    /\ UNCHANGED <<lockCount, lockFile, cacheVars, importVars, restVars, mgrVars>>

\* self.stats[name] += 1, second half: ThreadSafeDict.__setitem__
WriteCounter(t) ==
    /\ thr[t].pc = "add"
    /\ stats' = [stats EXCEPT ![Head(thr[t].tally)] = thr[t].seen + 1]
    /\ Counted(stats') <= MaxCount
    /\ thr' = [thr EXCEPT ![t].tally = Tail(@),
                          ![t].pc = IF Tail(thr[t].tally) = <<>> THEN "leave" ELSE "count"]
    /\ UNCHANGED <<metadata, files, temps, index, now, uuids, watch,
                   lockCount, lockFile, importVars, restVars, mgrVars>>

\* the with block is left and the method returns its result
LeaveCall(t) ==
    /\ thr[t].pc = "leave"
    /\ Release
    /\ thr' = [thr EXCEPT ![t].pc = "returned"]
    /\ UNCHANGED <<cacheVars, importVars, restVars, mgrVars>>

\* the caller goes on after the return or the exception
Resume(t) ==
    /\ thr[t].pc \in {"returned", "raised"}
    /\ thr' = [thr EXCEPT ![t] = Idle]
    /\ UNCHANGED <<lockCount, lockFile, cacheVars, importVars, restVars, mgrVars>>

\* the steps of the calls under way
StepCall(t) ==
    \/ EnterCall(t)
    \/ OpenTemp(t)
    \/ WriteChunk(t)
    \/ CloseTemp(t)
    \/ RenameTemp(t)
    \/ StoreEntry(t)
    \/ FailCall(t)
    \/ Lookup(t)
    \/ TestExists(t)
    \/ ReadPayload(t)
    \/ ReadCounter(t)
    \/ WriteCounter(t)
    \/ LeaveCall(t)
    \/ Resume(t)

\* every thread calls cache_css and get_cached_css
ConcNext ==
    \E t \in Workers :
        \/ \E c \in SmallContents, n \in ExplicitKeys : CallCacheCss(t, c, n)
        \/ \E n \in ExplicitKeys : CallGetCachedCss(t, SuppliedKey(n))
        \/ StepCall(t)

\* one thread calls cache_css, the other calls get_cached_css
ReadWriteNext ==
    \E t \in Workers :
        \/ t = MainThread /\ \E c \in Contents, n \in ExplicitKeys : CallCacheCss(t, c, n)
        \/ t # MainThread /\ \E n \in ExplicitKeys : CallGetCachedCss(t, SuppliedKey(n))
        \/ StepCall(t)

-----------------------------------------------------------------------------
(* ImportManager.  Every top-level resolution runs process_imports on an     *)
(* ImportManager of its own, as extract_css_from_html does.  A stylesheet is *)
(* the sequence of its statements; an @import statement carries the target   *)
(* as it is spelled.                                                         *)

MAX_IMPORT_DEPTH == 10

Rule(text) == [import |-> FALSE, prefix |-> "", name |-> text]
Import(prefix, name) == [import |-> TRUE, prefix |-> prefix, name |-> name]

\* the stylesheets c0.css, ..., c11.css of a chain of 11 nested imports
ChainNames == <<"c0.css", "c1.css", "c2.css", "c3.css", "c4.css", "c5.css",
                "c6.css", "c7.css", "c8.css", "c9.css", "c10.css", "c11.css">>

\* the stylesheets that can be fetched, by the location they are fetched from
Sources ==
    [n \in {"plain.css", "a.css", "b.css", "broken.css", "twice.css"} |->
        CASE n = "plain.css"  -> <<Rule("p")>>
          [] n = "a.css"      -> <<Import("", "b.css"), Rule("a")>>
          [] n = "b.css"      -> <<Import("", "a.css"), Rule("b")>>
          [] n = "broken.css" -> <<Import("", "plain.css"), Import("", "missing.css"),
                                   Import("", "b.css"), Rule("r")>>
          [] n = "twice.css"  -> <<Import("", "plain.css"), Import("./", "plain.css"),
                                   Rule("t")>>]
    @@ [n \in {ChainNames[i] : i \in DOMAIN ChainNames} |->
            LET i == CHOOSE j \in DOMAIN ChainNames : ChainNames[j] = n
            IN  IF i < Len(ChainNames)
                THEN <<Import("", ChainNames[i + 1]), Rule(n)>>
                ELSE <<Rule(n)>>]

\* the documents handed to a top-level process_imports call
TopLevel == {"plain.css", "a.css", "broken.css", "twice.css", "c0.css"}

\* re.findall(import_pattern, css_content): the @import statements, in order
Imports(css_content) == SelectSeq(css_content, LAMBDA s : s.import)

NoCall == [pc |-> "idle", css_content |-> <<>>, depth |-> 0, lock |-> "",
           processed |-> {}, result |-> <<>>]

ImportInit == im = [t \in Threads |-> NoCall]

\* import_manager = ImportManager(); import_manager.process_imports(css, base_url):
\* the call arrives at "with self._lock" of process_imports
CallProcessImports(t, doc) ==
    /\ im[t].pc = "idle"
    /\ im' = [im EXCEPT ![t] = [NoCall EXCEPT !.pc = "called",
                                              !.css_content = Sources[doc]]]
    /\ UNCHANGED <<cacheVars, lockVars, restVars, mgrVars>>

\* process_imports from the acquisition of self._lock up to its return at the depth
\* limit or, below the limit, up to "with self._lock" of _cleanup_old_imports
EnterProcessImports(t) ==
    /\ im[t].pc = "called"
    /\ im[t].lock = ""
    /\ IF im[t].depth >= MAX_IMPORT_DEPTH
       THEN im' = [im EXCEPT ![t].pc = "returned",
                             ![t].result = im[t].css_content]
       ELSE im' = [im EXCEPT ![t].pc = "cleanup",
                             ![t].lock = t,
                             ![t].depth = @ + 1]
    /\ UNCHANGED <<cacheVars, lockVars, restVars, mgrVars>>

\* task t waits in _cleanup_old_imports for the threading.Lock it took itself in
\* process_imports: the lock is not reentrant and nobody else releases it
SelfDeadlocked(t) == im[t].pc = "cleanup" /\ im[t].lock = t

ImportNext ==
    \E t \in Threads :
        \/ \E doc \in TopLevel : CallProcessImports(t, doc)
        \/ EnterProcessImports(t)

-----------------------------------------------------------------------------
(* CSSOptimizer: the four passes of optimize over a parsed style sheet.      *)
(*                                                                         *)
(* A style rule is a record: id stands for the identity of the Python      *)
(* object, selectorList is the sequence of its selector texts (each a      *)
(* sequence of characters, so that split() can count them) and style the   *)
(* sequence of its declarations.  html_content is given by the set of      *)
(* selector texts that match a node of the document.                       *)

\* the longest style sheet handed to optimize
MaxRules == 3

\* optimize was called without html_content
NoHtml == {<<"<None>">>}

Decl(name, value, priority) == [name |-> name, value |-> value, priority |-> priority]

\* the rules the style sheets are made of:
\*   .a{color:red}   .a{color:blue;font-weight:bold}   .a, .b{color:red}
\*   p{color:red}    .x#y{color:blue!important}        #x{color:red}
\*   p, q{color:red}
RuleTexts ==
    LET a == <<".", "a">>
        b == <<".", "b">>
        p == <<"p">>
        q == <<"q">>
        xy == <<".", "x", "#", "y">>
        x == <<"#", "x">>
        red == Decl("color", "red", "")
    IN  { [selectorList |-> <<a>>, style |-> <<red>>],
          [selectorList |-> <<a>>,
           style |-> <<Decl("color", "blue", ""), Decl("font-weight", "bold", "")>>],
          [selectorList |-> <<a, b>>, style |-> <<red>>],
          [selectorList |-> <<p>>, style |-> <<red>>],
          [selectorList |-> <<xy>>, style |-> <<Decl("color", "blue", "important")>>],
          [selectorList |-> <<x>>, style |-> <<red>>],
          [selectorList |-> <<p, q>>, style |-> <<red>>] }

StyleSheets == UNION {[1..n -> RuleTexts] : n \in 1..MaxRules}

\* the documents: none, one whose nodes match .a only, one whose nodes match
\* every selector but #x and .x#y
HtmlContents ==
    { NoHtml,
      {<<".", "a">>},
      {<<".", "a">>, <<".", "b">>, <<"p">>, <<"q">>} }

\* cssutils.parseString: one object for each rule of the text
ParseString(css_content) ==
    [i \in DOMAIN css_content |->
        [id |-> i,
         selectorList |-> css_content[i].selectorList,
         style |-> css_content[i].style]]

\* what str() would give if it were the CSS text of the object alone
CssText(text, at) == <<text, <<>>>>

\* str() of a cssutils Selector or Property: cssutils defines __str__ of
\* both as '<cssutils.css.Selector object selectorText=... at 0x...>', the
\* text of the object followed by id(self), so that two objects never have
\* the same str() however equal their text
Str(text, at) == <<text, at>>

\* _normalize_rule: the sorted str() of the selectors and of the
\* declarations (a sorted sequence of distinct strings is given by their set)
NormalizeRule(rule) ==
    << {Str(rule.selectorList[k], <<rule.id, k>>) : k \in DOMAIN rule.selectorList},
       {Str(rule.style[k], <<rule.id, k>>) : k \in DOMAIN rule.style} >>

\* sheet.deleteRule(rule): the rule object is taken out of cssRules
DeleteRule(rules, rule) == SelectSeq(rules, LAMBDA r : r.id # rule.id)

\* _remove_duplicates: 'for rule in sheet' walks the live cssRules list by
\* position, so that the rule following a deleted one is stepped over
RemoveDuplicates(rules) ==
    LET RECURSIVE Walk(_, _, _)
        Walk(cur, i, seen_rules) ==
            IF i > Len(cur) THEN cur
            ELSE LET normalized == NormalizeRule(cur[i])
                 IN  IF normalized \in seen_rules
                        THEN Walk(DeleteRule(cur, cur[i]), i + 1, seen_rules)
                        ELSE Walk(cur, i + 1, seen_rules \cup {normalized})
    IN  Walk(rules, 1, {})

\* soup.select(string): soupsieve raises SelectorSyntaxError for a string
\* that is not a selector, as the str() of an object with its address is
Select(soup, string) ==
    IF string[2] # <<>> THEN "raises"
    ELSE IF string[1] \in soup THEN "found" ELSE "empty"

\* _is_rule_used: a selector whose select() raises is logged and the loop
\* goes on; False when no selector was found
IsRuleUsed(rule, soup) ==
    \E k \in DOMAIN rule.selectorList :
        Select(soup, Str(rule.selectorList[k], <<rule.id, k>>)) = "found"

\* _remove_unused, again over the live list; fault is the number of the
\* deleteRule call that raises (0: none does)
RemoveUnused(rules, soup, fault) ==
    LET RECURSIVE Walk(_, _, _)
        Walk(cur, i, deleted) ==
            IF i > Len(cur) THEN [rules |-> cur, raised |-> FALSE]
            ELSE IF IsRuleUsed(cur[i], soup) THEN Walk(cur, i + 1, deleted)
            ELSE IF deleted + 1 = fault THEN [rules |-> cur, raised |-> TRUE]
            ELSE Walk(DeleteRule(cur, cur[i]), i + 1, deleted + 1)
    IN  Walk(rules, 1, 0)

\* _merge_rule_group: the declarations of the group, a later value replacing
\* an earlier one of the same name (the priority is not carried over); the
\* rules of the group are deleted one by one and the new rule added, and a
\* rule no longer in the sheet makes deleteRule raise, which is handled here
MergeRuleGroup(rules, group, id) ==
    LET all == LET RECURSIVE Flat(_)
                   Flat(k) == IF k > Len(group) THEN <<>>
                              ELSE group[k].style \o Flat(k + 1)
               IN  Flat(1)
        first == {i \in DOMAIN all : \A j \in 1..(i - 1) : all[j].name # all[i].name}
        Last(name) == CHOOSE i \in DOMAIN all :
                         /\ all[i].name = name
                         /\ \A j \in DOMAIN all : all[j].name = name => j <= i
        RECURSIVE Props(_)
        Props(i) == IF i > Len(all) THEN <<>>
                    ELSE IF i \in first
                        THEN <<Decl(all[i].name, all[Last(all[i].name)].value, "")>>
                             \o Props(i + 1)
                        ELSE Props(i + 1)
        new_rule == [id |-> id, selectorList |-> group[1].selectorList,
                     style |-> Props(1)]
        Present(cur, rule) == \E i \in DOMAIN cur : cur[i].id = rule.id
        RECURSIVE Delete(_, _)
        Delete(cur, k) ==
            IF k > Len(group) THEN Append(cur, new_rule)
            ELSE IF ~Present(cur, group[k]) THEN cur
            ELSE Delete(DeleteRule(cur, group[k]), k + 1)
    IN  Delete(rules, 1)

\* _merge_rules: one group for each str(selector), in the order in which the
\* strings are first met; the groups of more than one rule are merged
MergeRules(rules) ==
    LET at == LET RECURSIVE Pairs(_)
                  Pairs(i) == IF i > Len(rules) THEN <<>>
                              ELSE [k \in DOMAIN rules[i].selectorList |-> <<i, k>>]
                                   \o Pairs(i + 1)
              IN  Pairs(1)
        Key(n) == Str(rules[at[n][1]].selectorList[at[n][2]],
                      <<rules[at[n][1]].id, at[n][2]>>)
        Group(n) == LET same == SelectSeq(at, LAMBDA ik :
                                    Str(rules[ik[1]].selectorList[ik[2]],
                                        <<rules[ik[1]].id, ik[2]>>) = Key(n))
                    IN  [m \in DOMAIN same |-> rules[same[m][1]]]
        RECURSIVE Walk(_, _)
        Walk(cur, n) ==
            IF n > Len(at) THEN cur
            ELSE IF (\E m \in 1..(n - 1) : Key(m) = Key(n)) \/ Len(Group(n)) <= 1
                THEN Walk(cur, n + 1)
                ELSE Walk(MergeRuleGroup(cur, Group(n), Len(rules) + n), n + 1)
    IN  Walk(rules, 1)

\* len(text.split(ch)): one more than the occurrences of ch in text
SplitLen(text, ch) == Cardinality({i \in DOMAIN text : text[i] = ch}) + 1

\* _rule_priority
RulePriority(rule) ==
    LET important_count ==
            Cardinality({k \in DOMAIN rule.style : rule.style[k].priority = "important"})
        selector_count == Len(rule.selectorList)
        RECURSIVE Specificity(_)
        Specificity(k) ==
            IF k > selector_count THEN 0
            ELSE SplitLen(rule.selectorList[k], "#")
                 + SplitLen(rule.selectorList[k], ".")
                 + SplitLen(rule.selectorList[k], ":")
                 + Specificity(k + 1)
    IN  <<0 - important_count, 0 - Specificity(1), 0 - selector_count>>

\* the order of Python on tuples of three integers
TupleLess(s, t) ==
    \/ s[1] < t[1]
    \/ s[1] = t[1] /\ s[2] < t[2]
    \/ s[1] = t[1] /\ s[2] = t[2] /\ s[3] < t[3]

\* _reorder_rules: the rules sorted by their priority (list.sort is stable),
\* then each in turn deleted from the sheet and added at its end; fault is
\* the number of the sheet.add call that raises (0: none does)
ReorderRules(rules, fault) ==
    LET RECURSIVE Sort(_)
        Sort(n) ==
            IF n = 0 THEN <<>>
            ELSE LET before == Sort(n - 1)
                     key == RulePriority(rules[n])
                     le == {j \in DOMAIN before :
                               ~TupleLess(key, RulePriority(before[j]))}
                 IN  [j \in 1..n |->
                        IF j <= Cardinality(le) THEN before[j]
                        ELSE IF j = Cardinality(le) + 1 THEN rules[n]
                        ELSE before[j - 1]]
        sorted == Sort(Len(rules))
        RECURSIVE Move(_, _)
        Move(cur, k) ==
            IF k > Len(sorted) THEN [rules |-> cur, raised |-> FALSE]
            ELSE IF k = fault
                THEN [rules |-> DeleteRule(cur, sorted[k]), raised |-> TRUE]
                ELSE Move(Append(DeleteRule(cur, sorted[k]), sorted[k]), k + 1)
    IN  Move(rules, 1)

\* the operations of optimize, by the names it gives them, and what follows
\* the last of them
Operations ==
    <<"duplicate removal", "unused rule removal", "rule merging", "rule reordering">>

NoOptimize ==
    [pc |-> "idle", html_content |-> NoHtml,
     received |-> [n \in 1..5 |-> <<>>], raised |-> {}]

OptInit == sheet = <<>> /\ opt = NoOptimize

\* optimize is called with a style sheet that parses and is not yet cached
CallOptimize(css_content, html_content) ==
    /\ opt.pc = "idle"
    /\ sheet' = ParseString(css_content)
    /\ opt' = [NoOptimize EXCEPT !.pc = Operations[1],
                                 !.html_content = html_content,
                                 !.received[1] = ParseString(css_content)]
    /\ UNCHANGED <<cacheVars, lockVars, importVars, retry, batch, mgrVars>>

\* one operation of optimize has run: the sheet it leaves is what the next
\* receives; _handle_optimization_error logs, sleeps and returns
Passed(n, outcome) ==
    /\ sheet' = outcome.rules
    /\ opt' = [opt EXCEPT !.pc = IF n = 4 THEN "optimized" ELSE Operations[n + 1],
                          !.received[n + 1] = outcome.rules,
                          !.raised = IF outcome.raised THEN @ \cup {n} ELSE @]
    /\ UNCHANGED <<cacheVars, lockVars, importVars, retry, batch, mgrVars>>

DoRemoveDuplicates ==
    /\ opt.pc = Operations[1]
    /\ Passed(1, [rules |-> RemoveDuplicates(sheet), raised |-> FALSE])

DoRemoveUnused ==
    /\ opt.pc = Operations[2]
    /\ IF opt.html_content = NoHtml
          THEN Passed(2, [rules |-> sheet, raised |-> FALSE])
          ELSE \E fault \in 0..Len(sheet) :
                  Passed(2, RemoveUnused(sheet, opt.html_content, fault))

DoMergeRules ==
    /\ opt.pc = Operations[3]
    /\ Passed(3, [rules |-> MergeRules(sheet), raised |-> FALSE])

DoReorderRules ==
    /\ opt.pc = Operations[4]
    /\ \E fault \in 0..Len(sheet) : Passed(4, ReorderRules(sheet, fault))

OptNext ==
    \/ \E css_content \in StyleSheets, html_content \in HtmlContents :
          CallOptimize(css_content, html_content)
    \/ DoRemoveDuplicates
    \/ DoRemoveUnused
    \/ DoMergeRules
    \/ DoReorderRules

\* _merge_rule_group is called with the rules of the sheet whose selector
\* list reads as that of rule i, the first of them, when there are several
CallMergeRuleGroup(css_content, i) ==
    /\ opt.pc = "idle"
    /\ i \in DOMAIN css_content
    /\ LET parsed == ParseString(css_content)
           group == SelectSeq(parsed, LAMBDA r : r.selectorList = parsed[i].selectorList)
           merged == MergeRuleGroup(parsed, group, Len(parsed) + 1)
       IN  /\ group[1].id = i
           /\ Len(group) > 1
           /\ sheet' = merged
           /\ opt' = [NoOptimize EXCEPT !.pc = "rule group merging",
                                        !.received[1] = parsed,
                                        !.received[2] = group,
                                        !.received[3] = merged]
    /\ UNCHANGED <<cacheVars, lockVars, importVars, retry, batch, mgrVars>>

MergeNext ==
    \E css_content \in StyleSheets, i \in 1..MaxRules : CallMergeRuleGroup(css_content, i)

-----------------------------------------------------------------------------
(* retry_with_backoff.  Times are in quarter seconds.                       *)

\* the largest max_retries a caller passes
MaxRetries == 2

\* base_delay, max_delay and exponential_base as they default, in quarter seconds
BaseDelay == 4
MaxDelay == 40
ExponentialBase == 2

\* the max_delay a caller passes: a second and a half, or the default
MaxDelays == {6, MaxDelay}

\* 0.5 + random.random(), a number from 0.5 up to but not 1.5, in quarters
Jitters == {2, 3, 4, 5}

\* jitter that never lengthens a delay
JitterDown(delay, random) == IF random > 4 THEN delay ELSE (delay * random) \div 4

\* delay * (0.5 + random.random())
Jitter(delay, random) == (delay * random) \div 4

\* what func raises, and the classes a caller may name as retry_on_exceptions
\* with the exceptions that are instances of them
Exceptions == {"ConnectionError", "ValueError"}
RetryOn == {Exceptions, {"ConnectionError"}}

\* an except clause that catches whatever is raised
MatchesAny(exception, retry_on_exceptions) == TRUE

\* except retry_on_exceptions as e
Matches(exception, retry_on_exceptions) == exception \in retry_on_exceptions

\* min(base_delay * (exponential_base ** attempt), max_delay)
Delay(attempt, max_delay) ==
    LET RECURSIVE Power(_)
        Power(n) == IF n = 0 THEN 1 ELSE ExponentialBase * Power(n - 1)
        delay == BaseDelay * Power(attempt)
    IN  IF delay < max_delay THEN delay ELSE max_delay

NoRetry ==
    [pc |-> "idle", max_retries |-> 0, max_delay |-> MaxDelay, jitter |-> FALSE,
     retry_on_exceptions |-> {}, attempt |-> 0, outcomes |-> <<>>,
     last_exception |-> <<>>, delay |-> 0, slept |-> <<>>, result |-> <<>>]

RetryInit == retry = NoRetry

\* retry_with_backoff(func, max_retries=..., max_delay=..., jitter=...,
\* retry_on_exceptions=...)
CallRetryWithBackoff(max_retries, max_delay, jitter, retry_on_exceptions) ==
    /\ retry.pc = "idle"
    /\ retry' = [NoRetry EXCEPT !.pc = "try", !.max_retries = max_retries,
                                !.max_delay = max_delay, !.jitter = jitter,
                                !.retry_on_exceptions = retry_on_exceptions]
    /\ UNCHANGED <<cacheVars, lockVars, importVars, sheet, opt, batch, mgrVars>>

\* one turn of the loop: func is invoked and returns ("ok") or raises; the
\* n-th invocation returns the value <<"value", n>> or raises <<outcome, n>>;
\* random is the value of 0.5 + random.random()
InvokeFunc(outcome, random) ==
    /\ retry.pc = "try"
    /\ LET n == Len(retry.outcomes) + 1
           called == [retry EXCEPT !.outcomes = Append(@, outcome)]
           delay == Delay(retry.attempt, retry.max_delay)
       IN  retry' =
             IF outcome = "ok"
                THEN [called EXCEPT !.pc = "returned", !.result = <<"value", n>>]
             ELSE IF ~Matches(outcome, retry.retry_on_exceptions)
                THEN [called EXCEPT !.pc = "raised", !.result = <<outcome, n>>]
             ELSE IF retry.attempt = retry.max_retries
                THEN [called EXCEPT !.pc = "raised", !.last_exception = <<outcome, n>>,
                                    !.result = <<outcome, n>>]
             ELSE [called EXCEPT !.pc = "sleep", !.last_exception = <<outcome, n>>,
                                 !.delay = IF retry.jitter THEN Jitter(delay, random)
                                                           ELSE delay]
    /\ UNCHANGED <<cacheVars, lockVars, importVars, sheet, opt, batch, mgrVars>>

\* time.sleep(delay) is over: the next attempt of range(max_retries + 1)
Sleep ==
    /\ retry.pc = "sleep"
    /\ retry' = [retry EXCEPT !.pc = "try", !.attempt = @ + 1,
                               !.slept = Append(@, retry.delay)]
    /\ UNCHANGED <<cacheVars, lockVars, importVars, sheet, opt, batch, mgrVars>>

RetryNext ==
    \/ \E max_retries \in 0..MaxRetries, max_delay \in MaxDelays, jitter \in BOOLEAN,
          retry_on_exceptions \in RetryOn :
          CallRetryWithBackoff(max_retries, max_delay, jitter, retry_on_exceptions)
    \/ \E outcome \in {"ok"} \cup Exceptions, random \in Jitters :
          InvokeFunc(outcome, random)
    \/ Sleep

-----------------------------------------------------------------------------
(* extract_css_from_directory: process_single_file is submitted for every    *)
(* HTML file of the directory to a pool of worker threads, and the main      *)
(* thread collects the results as the tasks complete.                        *)

\* the HTML files a directory can hold: one that cannot be read, one with no
\* CSS, one with a style block, and one with the style block body{margin:0}
\* and a link to a stylesheet that holds @import "b.css"; .a{color:red}.
\* style is the text of the style blocks, link that of the linked stylesheets
Documents ==
    [f \in {"unreadable.html", "plain.html", "styled.html", "page.html"} |->
        CASE f = "unreadable.html" -> [readable |-> FALSE, style |-> <<>>, link |-> <<>>]
          [] f = "plain.html"      -> [readable |-> TRUE, style |-> <<>>, link |-> <<>>]
          [] f = "styled.html"     -> [readable |-> TRUE, style |-> <<Rule(".a")>>,
                                       link |-> <<>>]
          [] f = "page.html"       -> [readable |-> TRUE, style |-> <<Rule("body")>>,
                                       link |-> <<Import("", "b.css"), Rule(".a")>>]]

\* combined_css = '\n'.join(css_content) of extract_css_from_html
CombinedCss(f) == Documents[f].style \o Documents[f].link

\* process_single_file ends without a call of process_imports: open() raises, or
\* extract_css_from_html returns '' for a document with no valid CSS and
\* save_css_to_file raises for the empty content
EndsEarly(f) == ~Documents[f].readable \/ CombinedCss(f) = <<>>

NoBatch ==
    [pc |-> "idle", html_files |-> {}, future |-> <<>>,
     worker |-> [t \in Threads |-> ""], results |-> <<>>, summary |-> <<>>]

BatchInit == batch = NoBatch

\* extract_css_from_directory up to the submission of one task for each file
CallExtractCssFromDirectory(html_files) ==
    /\ batch.pc = "idle"
    /\ batch' = [NoBatch EXCEPT !.pc = "running", !.html_files = html_files,
                                !.future = [f \in html_files |->
                                              [state |-> "pending", status |-> "", css |-> <<>>]]]
    /\ UNCHANGED <<cacheVars, lockVars, importVars, sheet, opt, retry, mgrVars>>

\* a free worker thread of the pool takes a pending task
StartTask(t, f) ==
    /\ batch.pc = "running"
    /\ batch.worker[t] = ""
    /\ f \in batch.html_files
    /\ batch.future[f].state = "pending"
    /\ batch' = [batch EXCEPT !.worker[t] = f, !.future[f].state = "running"]
    /\ UNCHANGED <<cacheVars, lockVars, importVars, sheet, opt, retry, mgrVars>>

\* process_single_file on a document that ends early: the exception is caught
\* and the task completes with an error entry, no CSS having been saved
FailTask(t) ==
    /\ batch.worker[t] # ""
    /\ EndsEarly(batch.worker[t])
    /\ batch' = [batch EXCEPT !.worker[t] = "",
                              !.future[batch.worker[t]] =
                                  [state |-> "done", status |-> "error", css |-> <<>>]]
    /\ UNCHANGED <<cacheVars, lockVars, importVars, sheet, opt, retry, mgrVars>>

\* process_single_file on a document with CSS: extract_css_from_html makes an
\* ImportManager and calls its process_imports on the combined CSS
ExtractCss(t) ==
    /\ batch.worker[t] # ""
    /\ ~EndsEarly(batch.worker[t])
    /\ im[t].pc = "idle"
    /\ im' = [im EXCEPT ![t] = [NoCall EXCEPT !.pc = "called",
                                              !.css_content = CombinedCss(batch.worker[t])]]
    /\ UNCHANGED <<cacheVars, lockVars, restVars, mgrVars>>

\* as_completed yields a completed task and its result is stored under its file
CollectResult(f) ==
    /\ batch.pc = "running"
    /\ f \in batch.html_files
    /\ batch.future[f].state = "done"
    /\ batch' = [batch EXCEPT !.future[f].state = "collected",
                              !.results = (f :> [status |-> batch.future[f].status,
                                                 css |-> batch.future[f].css]) @@ @]
    /\ UNCHANGED <<cacheVars, lockVars, importVars, sheet, opt, retry, mgrVars>>

\* as_completed is exhausted and the pool shut down: the summary is returned
ReturnSummary ==
    /\ batch.pc = "running"
    /\ \A f \in batch.html_files : batch.future[f].state = "collected"
    /\ LET success_count ==
               Cardinality({f \in DOMAIN batch.results :
                               batch.results[f].status = "success"})
           total == Cardinality(DOMAIN batch.results)
       IN  batch' = [batch EXCEPT !.pc = "returned",
                                  !.summary = [total_files |-> total,
                                               successful_files |-> success_count,
                                               failed_files |-> total - success_count]]
    /\ UNCHANGED <<cacheVars, lockVars, importVars, sheet, opt, retry, mgrVars>>

BatchNext ==
    \/ \E html_files \in SUBSET DOMAIN Documents \ {{}} :
          CallExtractCssFromDirectory(html_files)
    \/ \E t \in Threads, f \in DOMAIN Documents : StartTask(t, f)
    \/ \E t \in Threads : FailTask(t)
    \/ \E t \in Threads : ExtractCss(t)
    \/ \E t \in Threads : EnterProcessImports(t)
    \/ \E f \in DOMAIN Documents : CollectResult(f)
    \/ ReturnSummary

-----------------------------------------------------------------------------
(* NetworkManager.  A URL is given by the scheme and the netloc urlparse     *)
(* finds in it; an HTTP request that was issued is recorded in net.issued.   *)

\* the largest max_requests a NetworkManager is made with, and the number of
\* make_request calls followed
MaxRequests == 2

\* max_requests=None
Unlimited == <<>>

\* "http://a", "http://b", "not-a-url" and "http://"
Urls ==
    { [scheme |-> "http", netloc |-> "a"], [scheme |-> "http", netloc |-> "b"],
      [scheme |-> "", netloc |-> ""], [scheme |-> "http", netloc |-> ""] }

\* is_valid_url: all([result.scheme, result.netloc])
IsValidUrl(url) == url.scheme # "" /\ url.netloc # ""

\* a check that still admits a request when the limit is reached
WithinOrAtLimit(n) ==
    n.max_requests = Unlimited \/ n.request_count <= n.max_requests[1]

\* check_network_usage
CheckNetworkUsage(n) ==
    n.max_requests = Unlimited \/ n.request_count < n.max_requests[1]

\* self.request_queue.append(...); self.request_queue.sort(key=priority,
\* reverse=True): stable, the higher priority first
Enqueue(queue, request) ==
    LET ahead == SelectSeq(queue, LAMBDA r : r.priority >= request.priority)
        behind == SelectSeq(queue, LAMBDA r : r.priority < request.priority)
    IN  ahead \o <<request>> \o behind

NoResponse == <<"None">>
NetworkError == <<"NetworkError">>

NetInit == net = <<>>

\* NetworkManager(max_requests=..., batch_size=...)
NewNetworkManager(max_requests, batch_size) ==
    /\ net = <<>>
    /\ net' = [max_requests |-> max_requests, batch_size |-> batch_size,
               request_count |-> 0, request_queue |-> <<>>, error_count |-> 0,
               issued |-> <<>>, calls |-> 0, last |-> "init", usage |-> TRUE,
               url |-> [scheme |-> "", netloc |-> ""], sent |-> 0,
               returned |-> NoResponse]
    /\ UNCHANGED <<cacheVars, lockVars, importVars, restVars, mem, optCache, flock, dir>>

\* a direct call of check_network_usage()
CallCheckNetworkUsage ==
    /\ net # <<>>
    /\ net' = [net EXCEPT !.last = "check", !.usage = CheckNetworkUsage(net)]
    /\ UNCHANGED <<cacheVars, lockVars, importVars, restVars, mem, optCache, flock, dir>>

\* make_request(url, priority=...).  Below batch_size queued requests the
\* request is issued by _make_single_request and stays in the queue: session.
\* request returns a response ("ok", "failed" for an error status) or raises.
\* At batch_size queued requests _process_batch takes the batch off the queue
\* and then reads self.thread_pool._max_workers, an attribute ThreadPool does
\* not have: the AttributeError is raised on as NetworkError before any request
\* of the batch is issued.
MakeRequest(url, priority, outcome) ==
    /\ net # <<>>
    /\ net.calls < MaxRequests + 1
    /\ LET called == [net EXCEPT !.last = "request", !.url = url, !.calls = @ + 1,
                                 !.usage = CheckNetworkUsage(net), !.sent = 0,
                                 !.returned = NoResponse]
           queued == Enqueue(net.request_queue, [url |-> url, priority |-> priority])
       IN  net' =
             IF ~CheckNetworkUsage(net) \/ ~IsValidUrl(url) THEN called
             ELSE IF Len(queued) >= net.batch_size
                THEN [called EXCEPT
                        !.request_queue = SubSeq(queued, net.batch_size + 1, Len(queued)),
                        !.error_count = @ + 1,
                        !.returned = NetworkError]
             ELSE IF outcome = "raises"
                THEN [called EXCEPT !.request_queue = queued,
                                    !.issued = Append(@, url), !.sent = 1,
                                    !.error_count = @ + 2,
                                    !.returned = NetworkError]
             ELSE [called EXCEPT !.request_queue = queued,
                                 !.issued = Append(@, url), !.sent = 1,
                                 !.request_count = @ + 1,
                                 !.error_count = IF outcome = "ok" THEN @ ELSE @ + 1,
                                 !.returned = <<"response", outcome, url,
                                                Len(net.issued) + 1>>]
    /\ UNCHANGED <<cacheVars, lockVars, importVars, restVars, mem, optCache, flock, dir>>

\* reset_stats()
ResetStats ==
    /\ net # <<>>
    /\ net.last # "reset"
    /\ net' = [net EXCEPT !.last = "reset", !.request_count = 0, !.error_count = 0,
                          !.request_queue = <<>>]
    /\ UNCHANGED <<cacheVars, lockVars, importVars, restVars, mem, optCache, flock, dir>>

NetNext ==
    \/ \E max_requests \in {Unlimited} \cup {<<n>> : n \in (0 - 1)..MaxRequests},
          batch_size \in 1..3 :
          NewNetworkManager(max_requests, batch_size)
    \/ CallCheckNetworkUsage
    \/ \E url \in Urls, priority \in {1, 2}, outcome \in {"ok", "failed", "raises"} :
          MakeRequest(url, priority, outcome)
    \/ ResetStats

(* MemoryManager.  Memory is counted in units; the resident set size the     *)
(* process has when it is measured is an input of the measuring call.        *)

\* the largest memory_limit and the largest resident set size
MaxMemory == 2

\* self.max_history_size, 100 in the code
MaxHistorySize == 2

\* memory_limit=None
NoLimit == <<>>

\* the limit __init__ stores when it took every limit as given
LimitAsGiven(memory_limit) == memory_limit

\* __init__: "Treat negative or zero limits as no limit"
StoredLimit(memory_limit) ==
    IF memory_limit # NoLimit /\ memory_limit[1] <= 0 THEN NoLimit ELSE memory_limit

\* get_memory_usage: the manager after the measurement and the value returned;
\* when memory_info() raises nothing is recorded and 0 is returned
GetMemoryUsage(m, rss, raises) ==
    IF raises THEN [m |-> m, value |-> 0]
    ELSE LET history == Append(m.memory_history, rss)
         IN  [m |-> [m EXCEPT !.current_memory = rss,
                              !.peak_memory = IF rss > @ THEN rss ELSE @,
                              !.memory_history =
                                  IF Len(history) > MaxHistorySize
                                  THEN Tail(history) ELSE history],
              value |-> rss]

MemInit == mem = <<>>

\* MemoryManager(memory_limit=...)
NewMemoryManager(memory_limit) ==
    /\ mem = <<>>
    /\ mem' = [given |-> memory_limit, memory_limit |-> StoredLimit(memory_limit),
               memory_history |-> <<>>, peak_memory |-> 0, current_memory |-> 0,
               last |-> "init", available |-> TRUE, usage |-> 0]
    /\ UNCHANGED <<cacheVars, lockVars, importVars, restVars, net, optCache, flock, dir>>

\* a direct call of get_memory_usage()
CallGetMemoryUsage(rss, raises) ==
    /\ mem # <<>>
    /\ LET got == GetMemoryUsage(mem, rss, raises)
       IN  mem' = [got.m EXCEPT !.last = "usage", !.usage = got.value]
    /\ UNCHANGED <<cacheVars, lockVars, importVars, restVars, net, optCache, flock, dir>>

\* check_available_memory()
CheckAvailableMemory(rss, raises) ==
    /\ mem # <<>>
    /\ mem' =
         IF mem.memory_limit = NoLimit
         THEN [mem EXCEPT !.last = "check", !.available = TRUE]
         ELSE IF mem.memory_limit[1] <= 0
            THEN [mem EXCEPT !.last = "check", !.available = FALSE]
         ELSE LET got == GetMemoryUsage(mem, rss, raises)
              IN  [got.m EXCEPT !.last = "check", !.usage = got.value,
                                !.available = got.value < mem.memory_limit[1]]
    /\ UNCHANGED <<cacheVars, lockVars, importVars, restVars, net, optCache, flock, dir>>

MemNext ==
    \/ \E memory_limit \in {NoLimit} \cup {<<n>> : n \in (0 - 1)..MaxMemory} :
          NewMemoryManager(memory_limit)
    \/ \E rss \in 0..MaxMemory, raises \in BOOLEAN : CallGetMemoryUsage(rss, raises)
    \/ \E rss \in 0..MaxMemory, raises \in BOOLEAN : CheckAvailableMemory(rss, raises)

(* CSSOptimizer._cache.  optimize looks css_content up before it parses it   *)
(* and stores the text it returns; every text here is far below the 100 MB   *)
(* of _max_cache_size, so every result is stored.                            *)

\* the number of optimize calls followed on one CSSOptimizer; optCache.raised
\* tells whether a pass of one of them raised
MaxCalls == 2

\* the number of rules of a style sheet given to the optimizer whose cache is
\* followed
MaxCachedRules == 1

CachedSheets == {css_content \in StyleSheets : Len(css_content) <= MaxCachedRules}

\* sheet.cssText: the rules in the order of the sheet, as text
SheetCssText(rules) ==
    [i \in DOMAIN rules |->
        [selectorList |-> rules[i].selectorList, style |-> rules[i].style]]

\* a cache key made of the style sheet and the document
KeyOfBoth(css_content, html_content) == <<css_content, html_content>>

\* cache_key = hash(css_content)
CacheKey(css_content, html_content) == <<css_content>>

NoCalls ==
    [cache |-> <<>>, calls |-> 0, hit |-> FALSE, raised |-> FALSE,
     css_content |-> <<>>, html_content |-> NoHtml, returned |-> <<>>]

OptCacheInit == optCache = NoCalls

\* optimize finds cache_key in self._cache and returns what is stored
OptimizeCached(css_content, html_content) ==
    /\ opt.pc = "idle"
    /\ optCache.calls < MaxCalls
    /\ CacheKey(css_content, html_content) \in DOMAIN optCache.cache
    /\ optCache' = [optCache EXCEPT
                      !.calls = @ + 1, !.hit = TRUE,
                      !.css_content = css_content, !.html_content = html_content,
                      !.returned = optCache.cache[CacheKey(css_content, html_content)]]
    /\ UNCHANGED <<cacheVars, lockVars, importVars, restVars, net, mem, flock, dir>>

\* optimize does not find cache_key and parses css_content
OptimizeUncached(css_content, html_content) ==
    /\ opt.pc = "idle"
    /\ optCache.calls < MaxCalls
    /\ CacheKey(css_content, html_content) \notin DOMAIN optCache.cache
    /\ sheet' = ParseString(css_content)
    /\ opt' = [NoOptimize EXCEPT !.pc = Operations[1],
                                 !.html_content = html_content,
                                 !.received[1] = ParseString(css_content)]
    /\ optCache' = [optCache EXCEPT
                      !.calls = @ + 1, !.hit = FALSE,
                      !.css_content = css_content, !.html_content = html_content,
                      !.returned = <<>>]
    /\ UNCHANGED <<cacheVars, lockVars, importVars, retry, batch, net, mem, flock, dir>>

\* the end of optimize: the text of the sheet is stored and returned
ReturnOptimized ==
    /\ opt.pc = "optimized"
    /\ LET optimized_css == SheetCssText(sheet)
           cache_key == CacheKey(optCache.css_content, optCache.html_content)
       IN  optCache' = [optCache EXCEPT
                          !.cache = (cache_key :> optimized_css) @@ @,
                          !.raised = @ \/ opt.raised # {},
                          !.returned = optimized_css]
    /\ sheet' = <<>>
    /\ opt' = NoOptimize
    /\ UNCHANGED <<cacheVars, lockVars, importVars, retry, batch, net, mem, flock, dir>>

\* clear_cache()
ClearOptimizerCache ==
    /\ opt.pc = "idle"
    /\ optCache.cache # <<>>
    /\ optCache' = [optCache EXCEPT !.cache = <<>>]
    /\ UNCHANGED <<cacheVars, lockVars, importVars, restVars, net, mem, flock, dir>>

OptCacheNext ==
    \/ \E css_content \in CachedSheets, html_content \in HtmlContents :
          OptimizeCached(css_content, html_content)
    \/ \E css_content \in CachedSheets, html_content \in HtmlContents :
          OptimizeUncached(css_content, html_content)
    \/ DoRemoveDuplicates
    \/ DoRemoveUnused
    \/ DoMergeRules
    \/ DoReorderRules
    \/ ReturnOptimized
    \/ ClearOptimizerCache

(* Two FileLock objects for one path in one process.  A lock object keeps    *)
(* the id of the thread that made it; the lock file holds the pid and the    *)
(* thread id its writer kept.  The pid is the same everywhere and left out.  *)

\* the lock objects
Locks == {"A", "B"}

\* the largest _lock_count followed
MaxHolds == 2

NoLockFile == <<>>

Unmade == [made |-> FALSE, thread_id |-> "", lock_count |-> 0, acquired |-> "none"]

FlockInit == flock = [file |-> NoLockFile, lock |-> [o \in Locks |-> Unmade]]

\* the test of lines 292-295 when it compared the lock object with the writer
\* of the file
WrittenBySelf(f, o) == FALSE

\* pid == self._pid and thread_id == self._thread_id
HeldByThisThread(f, o) == f.file = <<f.lock[o].thread_id>>

\* FileLock(path), called by thread t
NewFileLock(o, t) ==
    /\ ~flock.lock[o].made
    /\ flock' = [flock EXCEPT ![("lock")][o] = [Unmade EXCEPT !.made = TRUE, !.thread_id = t]]
    /\ UNCHANGED <<cacheVars, lockVars, importVars, restVars, net, mem, optCache, dir>>

\* acquire() returns True: the object holds the lock already, or open(.., 'x')
\* makes the lock file, or the file read names this object's pid and thread id
AcquireFileLock(o) ==
    /\ flock.lock[o].made
    /\ flock.lock[o].lock_count < MaxHolds
    /\ \/ flock.lock[o].lock_count > 0
       \/ flock.file = NoLockFile
       \/ HeldByThisThread(flock, o)
    /\ flock' = [flock EXCEPT
                   !.file = IF flock.lock[o].lock_count = 0 /\ @ = NoLockFile
                            THEN <<flock.lock[o].thread_id>> ELSE @,
                   ![("lock")][o].lock_count = @ + 1,
                   ![("lock")][o].acquired = "True"]
    /\ UNCHANGED <<cacheVars, lockVars, importVars, restVars, net, mem, optCache, dir>>

\* acquire(timeout) returns False: the lock file names another thread of this
\* live process until the timeout has passed
AcquireTimesOut(o) ==
    /\ flock.lock[o].made
    /\ flock.lock[o].lock_count = 0
    /\ flock.file # NoLockFile
    /\ ~HeldByThisThread(flock, o)
    /\ flock' = [flock EXCEPT ![("lock")][o].acquired = "False"]
    /\ UNCHANGED <<cacheVars, lockVars, importVars, restVars, net, mem, optCache, dir>>

\* release(): at count 0 the lock file is removed, whoever wrote it
ReleaseFileLock(o) ==
    /\ flock.lock[o].made
    /\ flock.lock[o].lock_count > 0
    /\ flock' = [flock EXCEPT
                   !.file = IF flock.lock[o].lock_count = 1 THEN NoLockFile ELSE @,
                   ![("lock")][o].lock_count = @ - 1,
                   ![("lock")][o].acquired = "none"]
    /\ UNCHANGED <<cacheVars, lockVars, importVars, restVars, net, mem, optCache, dir>>

FlockNext ==
    \E o \in Locks :
        \/ \E t \in Threads : NewFileLock(o, t)
        \/ AcquireFileLock(o)
        \/ AcquireTimesOut(o)
        \/ ReleaseFileLock(o)

(* The cache directory of a CacheManager file by file name, for keys given   *)
(* by the caller: the payload of a key is the file cache_dir / key, the      *)
(* temporary file of its write is cache_dir / f"{key}.tmp", and the index is *)
(* cache_dir / 'metadata.json'.  The lock files exist only inside a call.    *)

\* keys a caller gives
NameKeys == {"k1", "k1.tmp", "metadata.json"}

IndexName == "metadata.json"

TempName(key) == key \o ".tmp"

\* temp_file.rename(cache_file): the target is replaced
Rename(fs, from, to) ==
    [k \in ((DOMAIN fs) \ {from}) \cup {to} |-> IF k = to THEN fs[from] ELSE fs[k]]

\* a write of the payload that goes through no file of another name
WriteInPlace(fs, key, content) == WriteFile(fs, key, content)

\* open(temp_file, 'w'); f.write(css_content); temp_file.rename(cache_file)
WriteThroughTemp(fs, key, content) ==
    Rename(WriteFile(fs, TempName(key), content), TempName(key), key)

\* _save_metadata: the index file is written anew with the keys and their entries
SaveIndex(fs, md) == WriteFile(fs, IndexName, <<"json", md>>)

DirInit == dir = [metadata |-> <<>>, files |-> <<>>, now |-> 0]

\* the clock advances between calls
DirTick ==
    /\ dir.now < MaxTime
    /\ dir' = [dir EXCEPT !.now = @ + 1]
    /\ UNCHANGED <<cacheVars, lockVars, importVars, restVars, net, mem, optCache, flock>>

\* cache_css(css_content, key)
DirCacheCss(css_content, key) ==
    /\ LET entry == [key |-> key, size |-> ContentSize(css_content),
                     timestamp |-> dir.now, original_key |-> key]
           md1 == SetItem(dir.metadata, entry)
           fs1 == SaveIndex(WriteThroughTemp(dir.files, key, <<"css", css_content>>), md1)
           spaced == MakeSpace(md1, fs1)
       IN  dir' = IF CheckSizeLimit(md1)
                  THEN [dir EXCEPT !.metadata = md1, !.files = fs1]
                  ELSE [dir EXCEPT !.metadata = spaced.md,
                                   !.files = SaveIndex(spaced.fs, spaced.md)]
    /\ UNCHANGED <<cacheVars, lockVars, importVars, restVars, net, mem, optCache, flock>>

\* remove_cached_css(key)
DirRemoveCachedCss(key) ==
    /\ LET removed == RemoveEntry(dir.metadata, dir.files, key)
       IN  dir' = [dir EXCEPT !.metadata = removed.md,
                              !.files = SaveIndex(removed.fs, removed.md)]
    /\ UNCHANGED <<cacheVars, lockVars, importVars, restVars, net, mem, optCache, flock>>

\* get_cached_css(key): an expired entry is removed, nothing else changes
DirGetCachedCss(key) ==
    /\ HasKey(dir.metadata, key)
    /\ Expired(Info(dir.metadata, key), dir.now)
    /\ DirRemoveCachedCss(key)

DirNext ==
    \/ DirTick
    \/ \E css_content \in Contents, key \in NameKeys : DirCacheCss(css_content, key)
    \/ \E key \in NameKeys : DirRemoveCachedCss(key)
    \/ \E key \in NameKeys : DirGetCachedCss(key)

-----------------------------------------------------------------------------

Init == CacheInit /\ LockInit /\ ImportInit /\ OptInit /\ RetryInit /\ BatchInit
        /\ NetInit /\ MemInit /\ OptCacheInit /\ FlockInit /\ DirInit

\* the methods of one CacheManager called one after the other
Spec == Init /\ [][CacheNext]_vars

\* the same on a file system on which writing a payload can fail
KeylessSpec == Init /\ [][KeylessNext]_vars

RestartSpec == Init /\ [][RestartNext]_vars

CorruptSpec == Init /\ [][CorruptNext]_vars

FaultSpec == Init /\ [][FaultNext]_vars

\* cache_css calls with keys of the caller, an eviction failing at the removal of a
\* payload included
EvictFaultSpec == Init /\ [][EvictFaultNext]_vars

\* the threads of one process calling the guarded methods of one CacheManager
LockSpec == Init /\ [][LockNext]_vars

\* the threads of one process putting into and getting from one CacheManager
ConcSpec == Init /\ [][ConcNext]_vars

\* one thread putting into one CacheManager while another gets from it
ReadWriteSpec == Init /\ [][ReadWriteNext]_vars

\* the tasks of one process resolving the imports of their documents
ImportSpec == Init /\ [][ImportNext]_vars

\* one call of optimize on a new CSSOptimizer
OptSpec == Init /\ [][OptNext]_vars

\* one call of retry_with_backoff
RetrySpec == Init /\ [][RetryNext]_vars

\* one call of extract_css_from_directory
BatchSpec == Init /\ [][BatchNext]_vars

\* the optimize calls made one after the other on one CSSOptimizer
OptCacheSpec == Init /\ [][OptCacheNext]_vars

\* two FileLock objects for one path
FlockSpec == Init /\ [][FlockNext]_vars

\* the calls made on one CacheManager with keys given by the caller
DirSpec == Init /\ [][DirNext]_vars

\* one call of _merge_rule_group
MergeSpec == Init /\ [][MergeNext]_vars

\* the calls made on one MemoryManager
MemSpec == Init /\ [][MemNext]_vars

\* the calls made on one NetworkManager by one thread
NetSpec == Init /\ [][NetNext]_vars

-----------------------------------------------------------------------------
(* Claims about the CacheManager, checked under Spec.                       *)

Entries(md) == {md[i] : i \in DOMAIN md}

FollowedAndFresh ==
    /\ watch # NoWatch
    /\ ContentSize(watch.content) <= SizeLimit
    /\ ~(now - watch.time > Expiration)

WithEntry(css_content, key) ==
    SetItem(metadata, [key |-> key, size |-> ContentSize(css_content),
                       timestamp |-> now, original_key |-> key])

\* the keys under which a cache_css call of css_content can store it now
CallKeys(css_content) ==
    {SuppliedKey(n) : n \in ExplicitKeys}
        \cup {GeneratedKey(css_content, MainThread, u) : u \in Uuids \ uuids}

\* what C4 says of an eviction pass that started from the metadata before and left
\* the metadata and payload files of after
EvictionOldestFirst(before, after) ==
    LET kept    == Entries(after.md)
        evicted == Entries(before) \ kept
    IN  /\ evicted # {}
        \* no entry is evicted while an older one remains
        /\ \A e \in evicted, r \in kept : e.timestamp <= r.timestamp
        \* eviction stops as soon as the aggregate is within the limit
        /\ TotalSize(after.md) <= SizeLimit
        /\ \E e \in evicted :
              /\ \A e2 \in evicted : e2.timestamp <= e.timestamp
              /\ TotalSize(after.md) + e.size > SizeLimit
        \* an oldest entry is evicted, and what is evicted is not retrievable
        /\ \E e \in evicted : \A b \in Entries(before) : e.timestamp <= b.timestamp
        /\ \A e \in evicted : GetResult(after.md, after.fs, now, e.key) = None

C13_FailedWriteLeavesNoTrace ==
    [][stats'.errors > stats.errors
        => /\ stats'.errors = stats.errors + 1
           /\ temps' = <<>>
           /\ metadata' = metadata
           /\ files' = files
           /\ index' = index]_vars

\* a cache_css call has failed on a cache that holds an entry
C13_Witness == stats.errors > 0 /\ metadata # <<>>

Overwritten(css_content, key, after) ==
    /\ Cardinality({i \in DOMAIN after.md : after.md[i].key = key}) = 1
    /\ GetResult(after.md, after.fs, now, key) = css_content
    /\ TotalEntries(after.md) = TotalEntries(metadata)
    /\ TotalSize(after.md)
           = TotalSize(metadata) - Info(metadata, key).size + ContentSize(css_content)

C18_KeylessKeyFromContentAlone ==
    [][(/\ watch # NoWatch /\ watch.supplied = NoKey
        /\ watch' # NoWatch /\ watch'.supplied = NoKey
        /\ watch'.content = watch.content)
          => watch'.key = watch.key]_vars

C17_DamagedIndexLoadsEmpty ==
    (index.exists /\ (OpenRaises(index) \/ JsonLoadRaises(index)))
        => LET loaded == LoadMetadata(metadata, index)
           IN  /\ ~loaded.raised
               /\ loaded.md = <<>>
               /\ \A c \in Contents : \A n \in ExplicitKeys :
                     ContentSize(c) <= SizeLimit
                         => LET after == Stored(loaded.md, files, c, SuppliedKey(n), now)
                            IN  GetResult(after.md, after.fs, now, SuppliedKey(n)) = c

\* a damaged index was loaded while payloads were on disk, which are now unknown to
\* the metadata, and the cache has stored an entry since
C17_Witness ==
    /\ metadata # <<>>
    /\ \E k \in DOMAIN files : \A i \in DOMAIN metadata : metadata[i].key # k

-----------------------------------------------------------------------------
(* Claims about calls that overlap, checked under ReadWriteSpec and ConcSpec. *)

\* C12: a get_cached_css(k) that runs concurrently with a cache_css on the same key
\* returns None or a complete content, the previous or the new one of k, never a
\* part of a content or a mixture.
C12_NoPartialRead ==
    \A t \in Workers :
        (thr[t].pc = "returned" /\ thr[t].op = "get_cached_css")
            => thr[t].result \in Contents \cup {None}

\* C15: across any operations other than reset_stats, by one thread or by several
\* threads concurrently, each of the counters hits, misses, evictions and
\* expirations is non-decreasing.
C15_CountersNonDecreasing ==
    [][/\ stats'.hits >= stats.hits
       /\ stats'.misses >= stats.misses
       /\ stats'.evictions >= stats.evictions
       /\ stats'.expirations >= stats.expirations]_vars

\* C20: when several threads concurrently call cache_css on one CacheManager, with
\* no eviction and no expiry, every call completes without error and total_entries
\* afterwards equals the number of puts performed: no call raises, and every put
\* that evicts nothing adds one entry.
C20_EveryPutAddsAnEntry ==
    [][/\ \A t \in Workers : thr'[t].pc # "raised"
       /\ \A t \in Workers :
             (/\ thr[t].pc = "store" /\ thr'[t].pc = "leave"
              /\ stats'.evictions = stats.evictions)
                 => TotalEntries(metadata') = TotalEntries(metadata) + 1]_vars

-----------------------------------------------------------------------------
(* Claims about FileLock, checked under LockSpec.                           *)

\* C2: on one CacheManager shared by several threads, at most one thread at a time
\* is inside a section guarded by the cache lock: a thread that requests the lock
\* while another thread holds it does not proceed until the holder has released it.
C2_MutualExclusion ==
    \A t1, t2 \in Threads : (InSection(t1) /\ InSection(t2)) => t1 = t2

-----------------------------------------------------------------------------
(* Claims about ImportManager.process_imports, checked under ImportSpec.    *)

\* task t has a top-level process_imports call under way or finished
Called(t) == im[t].pc # "idle"

\* C5: for every finite set of stylesheets, including one in which A imports B and
\* B imports A, a top-level process_imports call eventually returns: no call comes
\* to wait for something that never happens.
C5_NeverBlocksForever == \A t \in Threads : ~SelfDeadlocked(t)

\* a chain of 11 nested imports starts at css_content
ChainOfEleven(css_content) ==
    /\ Len(ChainNames) = MAX_IMPORT_DEPTH + 2
    /\ css_content = Sources[ChainNames[1]]

\* C7: the resolution depth never exceeds MAX_IMPORT_DEPTH, and the call on a chain
\* of 11 nested imports gets through: it returns the chain expanded down to the
\* depth limit, where process_imports returns its input unchanged.
C7_ChainStopsAtDepthLimit ==
    \A t \in Threads :
        /\ im[t].depth <= MAX_IMPORT_DEPTH
        /\ (Called(t) /\ ChainOfEleven(im[t].css_content)) => ~SelfDeadlocked(t)

\* C8: two top-level resolutions of the same document both give an output, and the
\* same one.
C8_SameOutputTwice ==
    \A t1, t2 \in Threads :
        (t1 # t2 /\ Called(t1) /\ Called(t2)
                 /\ im[t1].css_content = im[t2].css_content)
            => /\ ~SelfDeadlocked(t1)
               /\ ~SelfDeadlocked(t2)
               /\ (im[t1].pc = "returned" /\ im[t2].pc = "returned")
                      => im[t1].result = im[t2].result

\* C9: the call on a document with no @import statement returns the document unchanged.
C9_NoImportUnchanged ==
    \A t \in Threads :
        (Called(t) /\ Imports(im[t].css_content) = <<>>)
            => /\ ~SelfDeadlocked(t)
               /\ im[t].pc = "returned" => im[t].result = im[t].css_content

\* css_content imports a target that cannot be fetched next to one that can
FailingAmongSiblings(css_content) ==
    \E i, j \in DOMAIN Imports(css_content) :
        /\ Imports(css_content)[i].name \notin DOMAIN Sources
        /\ Imports(css_content)[j].name \in DOMAIN Sources

\* C10: the call on a document one of whose imports cannot be fetched goes on with
\* the sibling imports and returns normally.
C10_FailedImportSkipped ==
    \A t \in Threads :
        (Called(t) /\ FailingAmongSiblings(im[t].css_content))
            => (~SelfDeadlocked(t) /\ im[t].pc \in {"called", "returned"})

-----------------------------------------------------------------------------
(* Claims about the passes of CSSOptimizer, checked under OptSpec.          *)

\* the operation of that number has run
Ran(n) == opt.pc \in {Operations[m] : m \in (n + 1)..4} \cup {"optimized"}

\* two rules of the same canonical form: the same selectors and the same
\* declarations, in whatever order
SameCanonicalForm(r1, r2) ==
    /\ {r1.selectorList[k] : k \in DOMAIN r1.selectorList}
         = {r2.selectorList[k] : k \in DOMAIN r2.selectorList}
    /\ {r1.style[k] : k \in DOMAIN r1.style} = {r2.style[k] : k \in DOMAIN r2.style}

\* C21: removing the duplicates of a rule list from which they were removed before
\* gives that same list, also when it held three rules of one canonical form in a row.
C21_DedupIdempotent ==
    Ran(1) => RemoveDuplicates(opt.received[2]) = opt.received[2]

C21_Witness ==
    /\ Ran(1)
    /\ Len(opt.received[1]) = 3
    /\ \A i, j \in 1..3 : SameCanonicalForm(opt.received[1][i], opt.received[1][j])
    /\ RemoveDuplicates(opt.received[2]) = opt.received[2]

\* C22: after duplicate removal the sheet holds, in their order, exactly the rules
\* that no earlier rule equals in canonical form.
C22_FirstOccurrencesRemain ==
    Ran(1) =>
        opt.received[2] =
            SelectSeq(opt.received[1],
                      LAMBDA r : \A j \in 1..(r.id - 1) :
                                    ~SameCanonicalForm(opt.received[1][j], r))

\* the rules of a list that have the selector list of r
SameSelectors(rules, r) ==
    SelectSeq(rules, LAMBDA q : q.selectorList = r.selectorList)

\* C23: after merging, the rules that had one selector list between them are one
\* rule with that selector list, and a rule whose selector list no other rule had
\* is as it was.
C23_MergeByEqualSelectorLists ==
    Ran(3) =>
        \A i \in DOMAIN opt.received[3] :
            LET r == opt.received[3][i]
            IN  IF Len(SameSelectors(opt.received[3], r)) >= 2
                   THEN Len(SameSelectors(opt.received[4], r)) = 1
                   ELSE \E j \in DOMAIN opt.received[4] :
                           /\ opt.received[4][j].selectorList = r.selectorList
                           /\ opt.received[4][j].style = r.style

\* C24: after merging, a rule that stands for several rules of one selector list
\* declares each property named in any of them once, with the value of the last of
\* them that declares it: .a{color:red} and .a{color:blue;font-weight:bold} give
\* .a{color:blue;font-weight:bold}.
C24_LaterDeclarationWins ==
    Ran(3) =>
        \A j \in DOMAIN opt.received[4] :
            LET r == opt.received[4][j]
                group == SameSelectors(opt.received[3], r)
                Declares(q, name) == \E k \in DOMAIN q.style : q.style[k].name = name
            IN  Len(group) >= 2 =>
                    \A g \in DOMAIN group : \A k \in DOMAIN group[g].style :
                        LET name == group[g].style[k].name
                            last == CHOOSE h \in DOMAIN group :
                                       /\ Declares(group[h], name)
                                       /\ \A m \in DOMAIN group :
                                             Declares(group[m], name) => m <= h
                        IN  /\ Cardinality({n \in DOMAIN r.style :
                                               r.style[n].name = name}) = 1
                            /\ \E n \in DOMAIN r.style, l \in DOMAIN group[last].style :
                                  /\ r.style[n].name = name
                                  /\ group[last].style[l].name = name
                                  /\ r.style[n].value = group[last].style[l].value

\* the priority of the specification: the important declarations, the ID, class
\* and pseudo-class markers of all selectors, and the selectors, each negated
MarkerPriority(rule) ==
    LET Markers(text) == Cardinality({i \in DOMAIN text : text[i] \in {"#", ".", ":"}})
        RECURSIVE Score(_)
        Score(k) == IF k > Len(rule.selectorList) THEN 0
                    ELSE Markers(rule.selectorList[k]) + Score(k + 1)
    IN  <<RulePriority(rule)[1], 0 - Score(1), 0 - Len(rule.selectorList)>>

\* C25: after reordering, the rules stand in ascending order of (-important
\* declarations, -specificity score, -selectors): [p{color:red},
\* .x#y{color:blue!important}] has its second rule moved to the front.
C25_AscendingPriority ==
    (Ran(4) /\ 4 \notin opt.raised) =>
        \A i, j \in DOMAIN opt.received[5] :
            i < j => ~TupleLess(MarkerPriority(opt.received[5][j]),
                                MarkerPriority(opt.received[5][i]))

\* C40: the specificity score by which _rule_priority orders a rule is the number of
\* its #, . and : markers, 0 for a rule without any, and of two reordered rules with
\* equally many important declarations the one with more markers stands first.
C40_ScoreCountsMarkers ==
    (Ran(4) /\ 4 \notin opt.raised) =>
        /\ \A i \in DOMAIN opt.received[4] :
              RulePriority(opt.received[4][i])[2] = MarkerPriority(opt.received[4][i])[2]
        /\ \A i, j \in DOMAIN opt.received[5] :
              (/\ i < j
               /\ MarkerPriority(opt.received[5][i])[1] = MarkerPriority(opt.received[5][j])[1])
                  => MarkerPriority(opt.received[5][i])[2] <= MarkerPriority(opt.received[5][j])[2]

\* C26: unused rule removal keeps every rule one of whose selectors could not be
\* matched because the matching raised.
C26_KeptOnUncertainty ==
    (Ran(2) /\ opt.html_content # NoHtml /\ 2 \notin opt.raised) =>
        \A i \in DOMAIN opt.received[2] :
            LET r == opt.received[2][i]
            IN  (\E k \in DOMAIN r.selectorList :
                    Select(opt.html_content,
                           Str(r.selectorList[k], <<r.id, k>>)) = "raises")
                    => \E j \in DOMAIN opt.received[3] : opt.received[3][j] = r

\* C27: an operation that raised part-way is followed by the remaining ones, and
\* the next of them receives the rule list the failing one received.
C27_FailingPassChangesNothing ==
    \A n \in opt.raised :
        /\ Ran(n)
        /\ opt.received[n + 1] = opt.received[n]

-----------------------------------------------------------------------------
(* Claim about retry_with_backoff, checked under RetrySpec.                 *)

\* C29: func is invoked at most max_retries + 1 times; the call returns the value of
\* the first invocation that succeeds and invokes func no more; when max_retries + 1
\* invocations raised an exception to retry on, the last of them is raised; an
\* exception not to retry on is raised at once.
C29_BoundedRetry ==
    LET n == Len(retry.outcomes)
        Retried(k) == retry.outcomes[k] \in retry.retry_on_exceptions
    IN  /\ n <= retry.max_retries + 1
        /\ \A k \in 1..n :
              /\ retry.outcomes[k] = "ok" =>
                    /\ k = n
                    /\ retry.pc = "returned"
                    /\ retry.result = <<"value", k>>
              /\ (retry.outcomes[k] # "ok" /\ ~Retried(k)) =>
                    /\ k = n
                    /\ retry.pc = "raised"
                    /\ retry.result = <<retry.outcomes[k], k>>
        /\ (n = retry.max_retries + 1 /\ retry.outcomes[n] # "ok") =>
              /\ retry.pc = "raised"
              /\ retry.result = <<retry.outcomes[n], n>>
        /\ retry.pc = "returned" => (n >= 1 /\ retry.outcomes[n] = "ok")

C29_Witness ==
    /\ retry.pc = "raised"
    /\ retry.max_retries = 2
    /\ Len(retry.outcomes) = 3
    /\ retry.retry_on_exceptions = {"ConnectionError"}
    /\ retry.result = <<"ConnectionError", 3>>

-----------------------------------------------------------------------------
(* Claims about the batch run and the whole pipeline, checked under          *)
(* BatchSpec.                                                                *)

\* C28: no task of a batch run comes to wait forever, and the run returns one entry
\* for every HTML file of the directory, an error entry for a file whose processing
\* failed, with successful_files + failed_files = total_files = the number of files.
C28_OneEntryForEveryDocument ==
    /\ \A t \in Threads : batch.worker[t] # "" => ~SelfDeadlocked(t)
    /\ batch.pc = "returned" =>
          /\ DOMAIN batch.results = batch.html_files
          /\ \A f \in batch.html_files :
                batch.results[f].status = IF EndsEarly(f) THEN "error" ELSE "success"
          /\ batch.summary.total_files = Cardinality(batch.html_files)
          /\ batch.summary.successful_files + batch.summary.failed_files
                = batch.summary.total_files

\* C30: the task for the document with the style block body{margin:0} and the link
\* to a.css, which imports b.css, does not come to wait forever, and the CSS it saves
\* holds a rule for .a, one for .b and one for body and no @import statement.
C30_PageGivesAllRules ==
    /\ \A t \in Threads : batch.worker[t] = "page.html" => ~SelfDeadlocked(t)
    /\ "page.html" \in DOMAIN batch.results =>
          LET css == batch.results["page.html"].css
          IN  /\ batch.results["page.html"].status = "success"
              /\ \A text \in {".a", ".b", "body"} :
                    \E i \in DOMAIN css : css[i] = Rule(text)
              /\ \A i \in DOMAIN css : ~css[i].import

-----------------------------------------------------------------------------
(* Claims about the NetworkManager, checked under NetSpec.                  *)

\* C31: check_network_usage returns True exactly when there is no limit or the
\* request count is below it, so never for a limit of zero or less, and a make_request
\* call whose check returned False returns None and issues no HTTP request.
C31_LimitEnforced ==
    net # <<>> =>
        /\ net.last = "check" =>
              net.usage = (\/ net.max_requests = Unlimited
                           \/ net.request_count < net.max_requests[1])
        /\ (net.last \in {"check", "request"} /\ net.max_requests # Unlimited
               /\ net.max_requests[1] <= 0) => ~net.usage
        /\ (net.last = "request" /\ ~net.usage) =>
              /\ net.request_count >= net.max_requests[1]
              /\ net.returned = NoResponse
              /\ net.sent = 0
        /\ (net.last = "request" /\ net.max_requests # Unlimited
               /\ net.request_count - net.sent >= net.max_requests[1]) => ~net.usage

C31_Witness ==
    /\ net # <<>>
    /\ net.last = "request"
    /\ net.max_requests = <<1>>
    /\ net.request_count = 1
    /\ IsValidUrl(net.url)
    /\ ~net.usage
    /\ net.returned = NoResponse

\* C36: a make_request call that passes the limit check and the URL check issues one
\* HTTP request, for its url, and returns the response to it, and no request that was
\* served is left in the request queue.
C36_OneRequestPerCall ==
    (net # <<>> /\ net.last = "request" /\ net.usage /\ IsValidUrl(net.url)) =>
        /\ net.sent = 1
        /\ net.issued[Len(net.issued)] = net.url
        /\ net.returned \in {NetworkError} \cup
              {<<"response", outcome, net.url, Len(net.issued)>> :
                  outcome \in {"ok", "failed"}}
        /\ \A i \in DOMAIN net.request_queue :
              \A j \in DOMAIN net.issued : net.request_queue[i].url # net.issued[j]

-----------------------------------------------------------------------------
(* Claims about the MemoryManager, checked under MemSpec.                   *)

\* C32: a MemoryManager made with a memory_limit of zero or less answers
\* check_available_memory() with False, and one made with no limit answers True.
C32_NoMemoryUnderNonPositiveLimit ==
    (mem # <<>> /\ mem.last = "check") =>
        /\ (mem.given # NoLimit /\ mem.given[1] <= 0) => ~mem.available
        /\ mem.given = NoLimit => mem.available

-----------------------------------------------------------------------------
(* Claims about the cache of the CSSOptimizer, checked under OptCacheSpec.  *)

\* the text an optimizer with an empty cache returns for a style sheet and a
\* document when no pass raises
FreshResult(css_content, html_content) ==
    LET parsed == RemoveDuplicates(ParseString(css_content))
        used == IF html_content = NoHtml THEN parsed
                ELSE RemoveUnused(parsed, html_content, 0).rules
    IN  SheetCssText(ReorderRules(MergeRules(used), 0).rules)

\* C33: what optimize(css, html) returns on an optimizer that has served earlier calls
\* is the text that an optimizer with an empty cache returns for the same css and html,
\* as long as no pass of any call has raised.
C33_CacheTransparent ==
    (optCache.calls > 0 /\ opt.pc = "idle" /\ ~optCache.raised) =>
        optCache.returned = FreshResult(optCache.css_content, optCache.html_content)

-----------------------------------------------------------------------------
(* Claims about two FileLock objects for one path, checked under FlockSpec. *)

\* C34: two FileLock objects for the same path never hold the lock at the same time,
\* and the lock file of an object that holds the lock is never removed by a release()
\* of the other object.
C34_DistinctObjectsExclude ==
    /\ ~(flock.lock["A"].lock_count > 0 /\ flock.lock["B"].lock_count > 0)
    /\ \A o \in Locks : flock.lock[o].lock_count > 0 => flock.file # NoLockFile

-----------------------------------------------------------------------------
(* Claims about the cache directory by file name, checked under DirSpec.    *)

\* C35: between calls, whatever keys the callers give, a key is in the metadata exactly
\* when the payload file named by it exists: every entry has its file, and every file
\* of the directory other than the index is the payload of an entry.
C35_MetadataMatchesFiles ==
    /\ \A i \in DOMAIN dir.metadata : FileExists(dir.files, dir.metadata[i].key)
    /\ \A name \in (DOMAIN dir.files) \ {IndexName} : HasKey(dir.metadata, name)

-----------------------------------------------------------------------------
(* Claims about _merge_rule_group, checked under MergeSpec.                 *)

\* C37: every declaration of the rule that _merge_rule_group makes carries the
\* !important mark exactly when the last declaration of its name in the group did.
C37_MergeKeepsImportant ==
    opt.pc = "rule group merging" =>
        LET group == opt.received[2]
            new_rule == opt.received[3][Len(opt.received[3])]
            Winning(name) ==
                LET r == CHOOSE r \in DOMAIN group :
                            /\ \E k \in DOMAIN group[r].style : group[r].style[k].name = name
                            /\ \A q \in DOMAIN group :
                                  (\E k \in DOMAIN group[q].style :
                                      group[q].style[k].name = name) => q <= r
                    k == CHOOSE k \in DOMAIN group[r].style :
                            /\ group[r].style[k].name = name
                            /\ \A j \in DOMAIN group[r].style :
                                  group[r].style[j].name = name => j <= k
                IN  group[r].style[k]
        IN  \A d \in DOMAIN new_rule.style :
               new_rule.style[d].priority = Winning(new_rule.style[d].name).priority

-----------------------------------------------------------------------------
(* Claims about a failing eviction, checked under EvictFaultSpec.           *)

\* C38: when the removal of the payload of one entry fails during the eviction a
\* cache_css call starts, the call returns its key and the eviction has gone on over
\* the other entries: the sizes are within the limit or no entry but that one is left.
C38_EvictionSkipsFailedEntry ==
    [][\A css_content \in Contents, name \in ExplicitKeys, bad \in KnownKeys :
          CacheCssUnlinkFails(css_content, name, bad) =>
              \/ CheckSizeLimit(metadata')
              \/ \A i \in DOMAIN metadata' : metadata'[i].key = bad]_vars

-----------------------------------------------------------------------------
(* Claims about the delays of retry_with_backoff, checked under RetrySpec.  *)

\* C39: every delay retry_with_backoff sleeps is at most max_delay, with jitter or
\* without; without jitter the delay before retry n is
\* min(base_delay * exponential_base^n, max_delay), and the delays never decrease.
C39_DelayWithinMaxDelay ==
    /\ retry.pc = "sleep" => retry.delay <= retry.max_delay
    /\ \A n \in DOMAIN retry.slept : retry.slept[n] <= retry.max_delay
    /\ ~retry.jitter =>
          /\ retry.pc = "sleep" =>
                retry.delay = IF BaseDelay * ExponentialBase ^ retry.attempt < retry.max_delay
                              THEN BaseDelay * ExponentialBase ^ retry.attempt
                              ELSE retry.max_delay
          /\ \A n \in DOMAIN retry.slept :
                \A m \in 1..(n - 1) : retry.slept[m] <= retry.slept[n]

====
